---- MODULE Spec2Model ----
(***************************************************************************)
(* Model of the transaction lifecycle (utils/transactionUtils.ts and the   *)
(* SolanaClient wrapper) and of the two HTTP transports                    *)
(* (transport/perpClient.ts: PerpClient and JupiterClient) of              *)
(* n8n-nodes-jupiter.                                                      *)
(*                                                                         *)
(* Every asynchronous function is cut at its await points: one action per  *)
(* continuation that the event loop runs.  The ledger (RPC connection),    *)
(* the HTTP server and the timers are the environment; their replies are   *)
(* drawn with \E from small sets.  Times are in milliseconds.              *)
(***************************************************************************)
EXTENDS Integers, Sequences, FiniteSets, TLC

VARIABLES
    op,          \* the function the caller is running ("idle" between calls)
    pc,          \* the await point that function is suspended at
    now,         \* Date.now()
    calls,       \* number of calls made on this client so far
    keypair,     \* SolanaClient.keypair is set (a private key was configured)
    submitted,   \* ledger: number of broadcasts of the transaction accepted
    log,         \* this call's ledger calls, timers and local steps, in order
    timeoutMs,   \* waitForConfirmation: parameter
    startTime,   \* waitForConfirmation: local
    status,      \* waitForConfirmation: local, last getTransactionStatus value
    maxRetries,  \* getRecentBlockhash: parameter
    i,           \* getRecentBlockhash: loop index
    lastError,   \* getRecentBlockhash: local
    delay,       \* the delay of the pending setTimeout
    reply,       \* what the ledger last resolved or rejected with
    signature,   \* waitForConfirmation parameter / sendAndConfirmTransaction local
    result,      \* the value the call returned: <<>> or <<value>>
    error,       \* the error the call threw, "null" when none
    options,     \* the JupiterClientConfig the caller passed to the constructor
    config,      \* JupiterClient.config after the constructor
    retryCount,  \* config._retryCount of the request in hand: <<>> when undefined
    response,    \* the last HTTP response of the request in hand
    operation,   \* the node operation that is executing ("none": a direct client call)
    feeQuote,    \* ledger: the fee it quotes for the transaction in hand, <<>> for null
    input,       \* the arguments a pure utility function is applied to
    output,      \* the values the utility functions returned, in order
    staticData   \* the workflow static data of the trigger node

txVars == <<op, pc, now, calls, keypair, submitted, log, timeoutMs, startTime,
            status, maxRetries, i, lastError, delay, reply, signature, result, error>>
httpVars == <<options, config, retryCount, response>>
extVars == <<operation, feeQuote, input, output, staticData>>
vars == <<txVars, httpVars, extVars>>

\* ------------------------------------------------------------------ bounds
MaxCalls == 1            \* calls per client session
MaxTimeoutSteps == 4     \* timeoutMs ranges over 0, 500, .. 500 * MaxTimeoutSteps
MaxLatencySteps == 1     \* an RPC round trip takes 0, 500, .. ms
MaxBlockhashRetries == 3 \* the maxRetries argument ranges over 0 .. this
MaxConfigRetries == 2    \* JupiterClientConfig.maxRetries ranges over 0 .. this
MaxPerpSends == 3        \* sends of one PerpClient request the model follows

Undefined == "undefined"
Null == "null"
None == <<>>
Some(v) == <<v>>

\* nothing has been received from the ledger yet
NoReply == [none |-> TRUE]

\* a log entry: a call issued at time t, and a timer of d ms set at time t
Call(name, t) == [call |-> name, at |-> t, ms |-> 0]
Timer(t, d) == [call |-> "setTimeout", at |-> t, ms |-> d]

Timeouts == {500 * k : k \in 0..MaxTimeoutSteps}
Latencies == {500 * k : k \in 0..MaxLatencySteps}
Jitters == {0, 500}      \* a timer fires at its delay or later
Slots == {7, 9}
BlockTimes == {0, 1700}
Heights == {300}
Signatures == {"sigA"}
Blockhashes == {"hashA", "hashB"}
TransportErrors == {"ECONNRESET", "ETIMEDOUT"}
LedgerErrs == {"InstructionError"}

\* JSON.stringify of a ledger error value
JsonStringify(e) == "{\"" \o e \o "\":[0]}"

\* the value of connection.getSignatureStatus: null (None) or a SignatureStatus
StatusValues ==
    {None} \cup
    {Some(v) : v \in [confirmationStatus : {Null, "processed", "confirmed", "finalized"},
                      slot : Slots, err : {Null} \cup LedgerErrs]}

\* the value of connection.getTransaction: null (None) or a transaction, whose
\* blockTime is null (None) or a number
TxValues == {None} \cup {Some([blockTime |-> b]) : b \in {None} \cup {Some(t) : t \in BlockTimes}}

\* the serialized transactions a caller may pass
Base64Inputs == {"versioned", "legacy", "garbage"}

\* ------------------------------------------------- utils/transactionUtils.ts

\* deserializeTransaction: a VersionedTransaction, else a legacy Transaction,
\* else Transaction.from throws
deserializeTransaction(b64) ==
    IF b64 = "versioned" THEN "VersionedTransaction"
    ELSE IF b64 = "legacy" THEN "Transaction"
    ELSE "throws"

\* the broadcast sendAndConfirmTransaction issues for a transaction
SendCall(tx) ==
    IF tx = "VersionedTransaction" THEN "sendTransaction" ELSE "sendRawTransaction"

\* mutant: the transaction is broadcast before it is signed
SendThenSign(tx, t) == <<Call("deserialize", t), Call(SendCall(tx), t), Call("sign", t)>>

\* signAndSendTransaction: deserialize, then sign, then hand the signed
\* transaction to sendAndConfirmTransaction, which broadcasts it
SignThenSend(tx, t) == <<Call("deserialize", t), Call("sign", t), Call(SendCall(tx), t)>>

\* mutant: the result says confirmed whatever the confirmation reported
SendResultConfirmedAnyway(sig, confirmationErr) ==
    [signature |-> sig,
     confirmed |-> TRUE,
     slot |-> None,
     blockTime |-> None,
     err |-> IF confirmationErr # Null THEN JsonStringify(confirmationErr) ELSE Null]

\* the TransactionResult sendAndConfirmTransaction returns
SendResult(sig, confirmationErr) ==
    [signature |-> sig,
     confirmed |-> confirmationErr = Null,
     slot |-> None,
     blockTime |-> None,
     err |-> IF confirmationErr # Null THEN JsonStringify(confirmationErr) ELSE Null]

\* mutant: a status the ledger has only processed counts as confirmed
getTransactionStatusProcessed(value) ==
    IF value = None
    THEN [confirmed |-> FALSE, finalized |-> FALSE, slot |-> None, err |-> Undefined]
    ELSE [confirmed |-> value[1].confirmationStatus \in {"processed", "confirmed", "finalized"},
          finalized |-> value[1].confirmationStatus = "finalized",
          slot |-> Some(value[1].slot),
          err |-> IF value[1].err # Null THEN JsonStringify(value[1].err) ELSE Null]

getTransactionStatus(value) ==
    IF value = None
    THEN [confirmed |-> FALSE, finalized |-> FALSE, slot |-> None, err |-> Undefined]
    ELSE [confirmed |-> value[1].confirmationStatus = "confirmed"
                        \/ value[1].confirmationStatus = "finalized",
          finalized |-> value[1].confirmationStatus = "finalized",
          slot |-> Some(value[1].slot),
          err |-> IF value[1].err # Null THEN JsonStringify(value[1].err) ELSE Null]

\* tx?.blockTime || undefined
BlockTimeOf(tx) ==
    IF tx = None THEN None
    ELSE IF tx[1].blockTime = None THEN None
    ELSE IF tx[1].blockTime[1] = 0 THEN None
    ELSE tx[1].blockTime

\* the result waitForConfirmation returns from inside the loop
ConfirmedResult(sig, st, tx) ==
    [signature |-> sig, confirmed |-> TRUE, slot |-> st.slot,
     blockTime |-> BlockTimeOf(tx), err |-> st.err]

\* the result waitForConfirmation returns after the loop
TimeoutResult(sig) ==
    [signature |-> sig, confirmed |-> FALSE, slot |-> None, blockTime |-> None,
     err |-> "Transaction confirmation timeout"]

\* mutant: the deadline itself still counts as inside the timeout
WithinTimeoutInclusive(t, start, limit) == t - start <= limit

\* the while condition of waitForConfirmation
WithinTimeout(t, start, limit) == t - start < limit

\* the delay between two status polls
PollIntervalMs == 1000

\* mutant: the backoff does not grow with the attempt
BackoffDelayFlat(idx) == 1000

\* the delay after the failed fetch of loop index idx
BackoffDelay(idx) == 1000 * (idx + 1)

\* error instanceof Error ? error : new Error('Unknown error')
AsError(e) == IF e \in TransportErrors THEN e ELSE "Unknown error"

\* mutant: only the first failure is remembered
CaughtErrorFirst(prev, e) == IF prev = Null THEN AsError(e) ELSE prev

\* the catch block's assignment to lastError (prev is the value it overwrites)
CaughtError(prev, e) == AsError(e)

\* throw lastError || new Error('Failed to get recent blockhash')
ExhaustedError(lastErr) ==
    IF lastErr # Null THEN lastErr ELSE "Failed to get recent blockhash"

\* ------------------------------------------------------------- SolanaClient

\* mutant: the client signs whether or not a private key was configured
hasWalletAlways(kp) == TRUE

\* hasWallet(): !!this.keypair, the test behind `if (!this.keypair) throw`
hasWallet(kp) == kp

\* getWalletAddress(): this.keypair?.publicKey.toBase58(), <<>> for undefined
getWalletAddress(kp) == IF kp THEN Some("walletA") ELSE None

\* -------------------------------------------------- transport/perpClient.ts

\* the options a caller may pass to new JupiterClient(...): each field absent
\* (<<>>) or given
NoOptions == [retryOnRateLimit |-> None, maxRetries |-> None]
ConfigInputs ==
    [retryOnRateLimit : {None, Some(TRUE), Some(FALSE)},
     maxRetries : {None} \cup {Some(n) : n \in 0..MaxConfigRetries}]

\* the JupiterClient constructor:
\*   retryOnRateLimit: config.retryOnRateLimit !== false
\*   maxRetries: config.maxRetries || 3
JupiterClientConfig(given) ==
    [retryOnRateLimit |-> given.retryOnRateLimit # Some(FALSE),
     maxRetries |-> IF given.maxRetries = None \/ given.maxRetries = Some(0)
                    THEN 3
                    ELSE given.maxRetries[1]]

\* an HTTP outcome: status 0 stands for an error without a response (network
\* failure); message: the body carries a message; retryAfter: the Retry-After
\* header in seconds, <<>> when absent
NoResponse == [status |-> 0, message |-> FALSE, retryAfter |-> None]
JupiterResponses ==
    [status : {200, 429, 400, 500, 0}, message : BOOLEAN, retryAfter : {None}]
PerpResponses ==
    [status : {200, 429, 500, 0}, message : {FALSE}, retryAfter : {None, Some(0), Some(2)}]

\* mutant: the interceptor retries a 429 whether or not retryOnRateLimit is set
ShouldRetryIgnoresSwitch(r, cfg, count) ==
    /\ r.status = 429
    /\ (count = None \/ count = Some(0) \/ count[1] < cfg.maxRetries)

\* the condition under which the JupiterClient interceptor retries
ShouldRetry(r, cfg, count) ==
    /\ r.status = 429
    /\ cfg.retryOnRateLimit
    /\ (count = None \/ count = Some(0) \/ count[1] < cfg.maxRetries)

\* config._retryCount = (config._retryCount || 0) + 1
NextRetryCount(count) == (IF count = None THEN 0 ELSE count[1]) + 1

\* mutant: the backoff grows linearly
RetryDelayLinear(count) == count * 2000

\* Math.pow(2, config._retryCount) * 1000
RetryDelay(count) == (2 ^ count) * 1000

\* JupiterClient.handleError: the Error thrown for a rejected request
handleError(r) ==
    IF r.status # 0 /\ r.message THEN "Jupiter API Error: message"
    ELSE IF r.status = 429 THEN "Rate limit exceeded. Please try again later."
    ELSE IF r.status = 400 THEN "Invalid request"
    ELSE "Jupiter API Error: axios"

\* mutant: the interceptor gives up after the second send
PerpShouldRetryCapped(r, sent) == r.status = 429 /\ sent < 2

\* the condition under which the PerpClient interceptor retries (sent: the sends
\* of this request so far, which the interceptor does not look at)
PerpShouldRetry(r, sent) == r.status = 429

\* const retryAfter = error.response.headers['retry-after'] || 1, times 1000
PerpRetryAfterMs(r) == (IF r.retryAfter = None THEN 1 ELSE r.retryAfter[1]) * 1000

IdleLocals ==
    /\ timeoutMs = 0 /\ startTime = 0 /\ status = getTransactionStatus(None)
    /\ maxRetries = 0 /\ i = 0 /\ lastError = Null /\ delay = 0
    /\ reply = NoReply /\ log = <<>> /\ signature = "" /\ result = None /\ error = Null

TxInit ==
    /\ op = "idle" /\ pc = "idle" /\ now = 0 /\ calls = 0 /\ submitted = 0
    /\ keypair \in BOOLEAN
    /\ IdleLocals

\* no node operation is executing, the ledger has no fee to quote, and no utility
\* function has been applied
NoInput == [fn |-> "none"]

\* the static data of a workflow that has not run yet: an empty object
NoStaticData == [lastTriggeredPrice |-> None, lastPrice |-> None, knownTokens |-> None]
ExtIdle ==
    /\ operation = "none" /\ feeQuote = None /\ input = NoInput /\ output = <<>>
    /\ staticData = NoStaticData

\* ---- waitForConfirmation

\* mutant: on timeout the transaction is broadcast again before returning
WfcLoopHeadResend(t, start, limit, sig, lg) ==
    IF WithinTimeout(t, start, limit)
    THEN /\ pc' = "wfc_status"
         /\ log' = Append(lg, Call("getSignatureStatus", t))
         /\ result' = None
    ELSE /\ pc' = "done"
         /\ log' = Append(lg, Call("sendTransaction", t))
         /\ result' = Some(TimeoutResult(sig))

\* the head of the while loop at time t: poll the status, or leave the loop and
\* return the timeout result
WfcLoopHead(t, start, limit, sig, lg) ==
    IF WithinTimeout(t, start, limit)
    THEN /\ pc' = "wfc_status"
         /\ log' = Append(lg, Call("getSignatureStatus", t))
         /\ result' = None
    ELSE /\ pc' = "done"
         /\ log' = lg
         /\ result' = Some(TimeoutResult(sig))

\* SolanaClient.waitForConfirmation -> waitForConfirmation, up to its first await
InvokeWaitForConfirmation ==
    /\ op = "idle" /\ calls < MaxCalls
    /\ \E sig \in Signatures, limit \in Timeouts :
          /\ op' = "waitForConfirmation"
          /\ calls' = calls + 1
          /\ signature' = sig
          /\ timeoutMs' = limit
          /\ startTime' = now
          /\ WfcLoopHead(now, now, limit, sig, <<>>)
    /\ UNCHANGED <<now, keypair, submitted, status, maxRetries, i, lastError,
                   delay, reply, error>>
    /\ UNCHANGED <<httpVars, extVars>>

\* getTransactionStatus resolves: return inside the loop after one lookup, or sleep
WfcStatusReply ==
    /\ op = "waitForConfirmation" /\ pc = "wfc_status"
    /\ \E value \in StatusValues, lat \in Latencies :
          /\ now' = now + lat
          /\ reply' = [status |-> value]
          /\ status' = getTransactionStatus(value)
          /\ IF status'.confirmed
             THEN /\ pc' = "wfc_lookup"
                  /\ log' = Append(log, Call("getTransaction", now'))
                  /\ UNCHANGED delay
             ELSE /\ pc' = "wfc_sleep"
                  /\ delay' = PollIntervalMs
                  /\ log' = Append(log, Timer(now', PollIntervalMs))
    /\ UNCHANGED <<op, calls, keypair, submitted, timeoutMs, startTime, maxRetries,
                   i, lastError, signature, result, error>>
    /\ UNCHANGED <<httpVars, extVars>>

\* connection.getSignatureStatus rejects: the error propagates
WfcStatusFails ==
    /\ op = "waitForConfirmation" /\ pc = "wfc_status"
    /\ \E e \in TransportErrors : error' = e /\ reply' = [rejected |-> e]
    /\ pc' = "raised"
    /\ UNCHANGED <<op, now, calls, keypair, submitted, log, timeoutMs, startTime,
                   status, maxRetries, i, lastError, delay, signature, result>>
    /\ UNCHANGED <<httpVars, extVars>>

\* connection.getTransaction resolves: the confirmed result
WfcLookupReply ==
    /\ op = "waitForConfirmation" /\ pc = "wfc_lookup"
    /\ \E tx \in TxValues, lat \in Latencies :
          /\ now' = now + lat
          /\ reply' = [tx |-> tx]
          /\ result' = Some(ConfirmedResult(signature, status, tx))
    /\ pc' = "done"
    /\ UNCHANGED <<op, calls, keypair, submitted, log, timeoutMs, startTime, status,
                   maxRetries, i, lastError, delay, signature, error>>
    /\ UNCHANGED <<httpVars, extVars>>

\* connection.getTransaction rejects: the error propagates
WfcLookupFails ==
    /\ op = "waitForConfirmation" /\ pc = "wfc_lookup"
    /\ \E e \in TransportErrors : error' = e /\ reply' = [rejected |-> e]
    /\ pc' = "raised"
    /\ UNCHANGED <<op, now, calls, keypair, submitted, log, timeoutMs, startTime,
                   status, maxRetries, i, lastError, delay, signature, result>>
    /\ UNCHANGED <<httpVars, extVars>>

\* the 1000 ms timer fires: back to the head of the loop
WfcTimerFires ==
    /\ op = "waitForConfirmation" /\ pc = "wfc_sleep"
    /\ \E j \in Jitters :
          /\ now' = now + delay + j
          /\ WfcLoopHead(now', startTime, timeoutMs, signature, log)
    /\ UNCHANGED <<op, calls, keypair, submitted, timeoutMs, startTime, status,
                   maxRetries, i, lastError, delay, reply, signature, error>>
    /\ UNCHANGED <<httpVars, extVars>>

\* ---- getRecentBlockhash

\* mutant: the loop bound is inclusive, one fetch too many
GbhLoopHeadInclusive(idx, n, lastErr, lg, t) ==
    IF idx <= n
    THEN /\ pc' = "gbh_fetch"
         /\ log' = Append(lg, Call("getLatestBlockhash", t))
         /\ error' = Null
    ELSE /\ pc' = "raised"
         /\ log' = lg
         /\ error' = ExhaustedError(lastErr)

\* the head of the for loop with index idx: fetch, or leave the loop and throw
GbhLoopHead(idx, n, lastErr, lg, t) ==
    IF idx < n
    THEN /\ pc' = "gbh_fetch"
         /\ log' = Append(lg, Call("getLatestBlockhash", t))
         /\ error' = Null
    ELSE /\ pc' = "raised"
         /\ log' = lg
         /\ error' = ExhaustedError(lastErr)

InvokeGetRecentBlockhash ==
    /\ op = "idle" /\ calls < MaxCalls
    /\ \E n \in 0..MaxBlockhashRetries :
          /\ maxRetries' = n
          /\ GbhLoopHead(0, n, Null, <<>>, now)
    /\ op' = "getRecentBlockhash"
    /\ calls' = calls + 1
    /\ i' = 0
    /\ lastError' = Null
    /\ UNCHANGED <<now, keypair, submitted, timeoutMs, startTime, status, delay, reply,
                   signature, result>>
    /\ UNCHANGED <<httpVars, extVars>>

\* connection.getLatestBlockhash resolves: return it
GbhFetchReply ==
    /\ op = "getRecentBlockhash" /\ pc = "gbh_fetch"
    /\ \E h \in Blockhashes, height \in Heights, lat \in Latencies :
          /\ now' = now + lat
          /\ reply' = [blockhash |-> h, lastValidBlockHeight |-> height]
          /\ result' = Some([blockhash |-> h, lastValidBlockHeight |-> height])
    /\ pc' = "done"
    /\ UNCHANGED <<op, calls, keypair, submitted, log, timeoutMs, startTime, status,
                   maxRetries, i, lastError, delay, signature, error>>
    /\ UNCHANGED <<httpVars, extVars>>

\* mutant: the last failed fetch throws at once, without the backoff wait
GbhFetchFailsSkipsLastWait ==
    /\ op = "getRecentBlockhash" /\ pc = "gbh_fetch"
    /\ \E e \in TransportErrors, lat \in Latencies :
          /\ now' = now + lat
          /\ reply' = [rejected |-> e]
          /\ lastError' = CaughtError(lastError, e)
          /\ IF i + 1 < maxRetries
             THEN /\ delay' = BackoffDelay(i)
                  /\ log' = Append(log, Timer(now', BackoffDelay(i)))
                  /\ pc' = "gbh_backoff"
                  /\ UNCHANGED error
             ELSE /\ pc' = "raised"
                  /\ error' = ExhaustedError(CaughtError(lastError, e))
                  /\ UNCHANGED <<delay, log>>
    /\ UNCHANGED <<op, calls, keypair, submitted, timeoutMs, startTime,
                   status, maxRetries, i, signature, result>>
    /\ UNCHANGED <<httpVars, extVars>>

\* connection.getLatestBlockhash rejects: remember the error and back off
GbhFetchFails ==
    /\ op = "getRecentBlockhash" /\ pc = "gbh_fetch"
    /\ \E e \in TransportErrors, lat \in Latencies :
          /\ now' = now + lat
          /\ reply' = [rejected |-> e]
          /\ lastError' = CaughtError(lastError, e)
    /\ delay' = BackoffDelay(i)
    /\ log' = Append(log, Timer(now', BackoffDelay(i)))
    /\ pc' = "gbh_backoff"
    /\ UNCHANGED <<op, calls, keypair, submitted, timeoutMs, startTime,
                   status, maxRetries, i, signature, result, error>>
    /\ UNCHANGED <<httpVars, extVars>>

\* the backoff timer fires: i++ and back to the head of the loop
GbhBackoffFires ==
    /\ op = "getRecentBlockhash" /\ pc = "gbh_backoff"
    /\ \E j \in Jitters : now' = now + delay + j
    /\ i' = i + 1
    /\ GbhLoopHead(i + 1, maxRetries, lastError, log, now')
    /\ UNCHANGED <<op, calls, keypair, submitted, timeoutMs, startTime, status,
                   maxRetries, lastError, delay, reply, signature, result>>
    /\ UNCHANGED <<httpVars, extVars>>

\* ---- SolanaClient.signAndSendTransaction -> sendAndConfirmTransaction

\* signAndSendTransaction up to the first await of sendAndConfirmTransaction: the
\* keypair guard, deserializeTransaction, signTransaction and the broadcast call
InvokeSignAndSendTransaction ==
    /\ op = "idle" /\ calls < MaxCalls
    /\ op' = "signAndSendTransaction"
    /\ calls' = calls + 1
    /\ \E b64 \in Base64Inputs, signerKnown \in BOOLEAN :
          IF ~hasWallet(keypair)
          THEN /\ pc' = "raised"
               /\ error' = "No wallet configured for signing"
               /\ log' = <<>>
          ELSE IF deserializeTransaction(b64) = "throws"
          THEN /\ pc' = "raised"
               /\ error' = "deserialize failed"
               /\ log' = <<>>
          ELSE IF ~signerKnown
          THEN /\ pc' = "raised"
               /\ error' = "unknown signer"
               /\ log' = <<Call("deserialize", now)>>
          ELSE /\ pc' = "sct_send"
               /\ error' = Null
               /\ log' = SignThenSend(deserializeTransaction(b64), now)
    /\ UNCHANGED <<now, keypair, submitted, timeoutMs, startTime, status, maxRetries,
                   i, lastError, delay, reply, signature, result>>
    /\ UNCHANGED <<httpVars, extVars>>

\* the broadcast resolves with the signature: ask for the latest blockhash
SctSendReply ==
    /\ op = "signAndSendTransaction" /\ pc = "sct_send"
    /\ \E sig \in Signatures, lat \in Latencies :
          /\ now' = now + lat
          /\ reply' = [signature |-> sig]
          /\ signature' = sig
    /\ submitted' = submitted + 1
    /\ pc' = "sct_blockhash"
    /\ log' = Append(log, Call("getLatestBlockhash", now'))
    /\ UNCHANGED <<op, calls, keypair, timeoutMs, startTime, status, maxRetries, i,
                   lastError, delay, result, error>>
    /\ UNCHANGED <<httpVars, extVars>>

\* the broadcast rejects: the error propagates, nothing was submitted
SctSendFails ==
    /\ op = "signAndSendTransaction" /\ pc = "sct_send"
    /\ \E e \in TransportErrors : error' = e /\ reply' = [rejected |-> e]
    /\ pc' = "raised"
    /\ UNCHANGED <<op, now, calls, keypair, submitted, log, timeoutMs, startTime,
                   status, maxRetries, i, lastError, delay, signature, result>>
    /\ UNCHANGED <<httpVars, extVars>>

\* getLatestBlockhash resolves: call confirmTransaction
SctBlockhashReply ==
    /\ op = "signAndSendTransaction" /\ pc = "sct_blockhash"
    /\ \E h \in Blockhashes, height \in Heights, lat \in Latencies :
          /\ now' = now + lat
          /\ reply' = [blockhash |-> h, lastValidBlockHeight |-> height]
    /\ pc' = "sct_confirm"
    /\ log' = Append(log, Call("confirmTransaction", now'))
    /\ UNCHANGED <<op, calls, keypair, submitted, timeoutMs, startTime, status,
                   maxRetries, i, lastError, delay, signature, result, error>>
    /\ UNCHANGED <<httpVars, extVars>>

SctBlockhashFails ==
    /\ op = "signAndSendTransaction" /\ pc = "sct_blockhash"
    /\ \E e \in TransportErrors : error' = e /\ reply' = [rejected |-> e]
    /\ pc' = "raised"
    /\ UNCHANGED <<op, now, calls, keypair, submitted, log, timeoutMs, startTime,
                   status, maxRetries, i, lastError, delay, signature, result>>
    /\ UNCHANGED <<httpVars, extVars>>

\* confirmTransaction resolves with value.err: the TransactionResult
SctConfirmReply ==
    /\ op = "signAndSendTransaction" /\ pc = "sct_confirm"
    /\ \E confirmationErr \in {Null} \cup LedgerErrs, lat \in Latencies :
          /\ now' = now + lat
          /\ reply' = [confirmation |-> confirmationErr]
          /\ result' = Some(SendResult(signature, confirmationErr))
    /\ pc' = "done"
    /\ UNCHANGED <<op, calls, keypair, submitted, log, timeoutMs, startTime, status,
                   maxRetries, i, lastError, delay, signature, error>>
    /\ UNCHANGED <<httpVars, extVars>>

\* confirmTransaction rejects (the blockhash expired): the error propagates
SctConfirmFails ==
    /\ op = "signAndSendTransaction" /\ pc = "sct_confirm"
    /\ \E e \in TransportErrors : error' = e /\ reply' = [rejected |-> e]
    /\ pc' = "raised"
    /\ UNCHANGED <<op, now, calls, keypair, submitted, log, timeoutMs, startTime,
                   status, maxRetries, i, lastError, delay, signature, result>>
    /\ UNCHANGED <<httpVars, extVars>>

\* the call has settled and its frame is gone; the client is free for the next call
Return ==
    /\ op # "idle" /\ pc \in {"done", "raised"}
    /\ op' = "idle" /\ pc' = "idle"
    /\ timeoutMs' = 0 /\ startTime' = 0 /\ status' = getTransactionStatus(None)
    /\ maxRetries' = 0 /\ i' = 0 /\ lastError' = Null /\ delay' = 0
    /\ reply' = NoReply /\ log' = <<>> /\ signature' = "" /\ result' = None /\ error' = Null
    /\ retryCount' = None /\ response' = NoResponse
    /\ operation' = "none"
    /\ UNCHANGED <<now, calls, keypair, submitted, options, config, feeQuote, input,
                   output, staticData>>

TxNext ==
    \/ InvokeWaitForConfirmation
    \/ WfcStatusReply
    \/ WfcStatusFails
    \/ WfcLookupReply
    \/ WfcLookupFails
    \/ WfcTimerFires
    \/ InvokeGetRecentBlockhash
    \/ GbhFetchReply
    \/ GbhFetchFails
    \/ GbhBackoffFires
    \/ InvokeSignAndSendTransaction
    \/ SctSendReply
    \/ SctSendFails
    \/ SctBlockhashReply
    \/ SctBlockhashFails
    \/ SctConfirmReply
    \/ SctConfirmFails
    \/ Return

\* a JupiterClient constructed with no options, no request in hand
HttpIdle ==
    /\ options = NoOptions
    /\ config = JupiterClientConfig(NoOptions)
    /\ retryCount = None /\ response = NoResponse

Init == TxInit /\ HttpIdle /\ ExtIdle

Next == TxNext

Spec == Init /\ [][Next]_vars

\* the awaits of a running call settle and its timers fire
Settle ==
    \/ WfcStatusReply \/ WfcStatusFails \/ WfcLookupReply \/ WfcLookupFails
    \/ WfcTimerFires
    \/ GbhFetchReply \/ GbhFetchFails \/ GbhBackoffFires
    \/ SctSendReply \/ SctSendFails \/ SctBlockhashReply \/ SctBlockhashFails
    \/ SctConfirmReply \/ SctConfirmFails

FairSpec == Spec /\ WF_vars(Settle)

\* ------------------------------------------------------------ log helpers
Count(lg, name) == Cardinality({k \in 1..Len(lg) : lg[k].call = name})
IsTimer(e) == e.call = "setTimeout"
Timers(lg) == SelectSeq(lg, IsTimer)
Terminal == pc \in {"done", "raised"}
Broadcasts == {"sendTransaction", "sendRawTransaction"}

\* ------------------------------------------------------- waitForConfirmation
Polls == Count(log, "getSignatureStatus")
Lookups == Count(log, "getTransaction")
MaxOf(S) == CHOOSE x \in S : \A y \in S : y <= x
MaxLatencyMs == MaxOf(Latencies)
MaxJitterMs == MaxOf(Jitters)

\* a run of waitForConfirmation whose status source neither failed nor confirmed
\* ends with the timeout result, not before the timeout has elapsed and within one
\* poll cycle after it, after at most ceil(timeoutMs / 1000) polls
C1_TimeoutShape ==
    op = "waitForConfirmation" =>
       /\ (pc = "raised" => error \in TransportErrors /\ result = None)
       /\ Polls <= (timeoutMs + 999) \div 1000
       /\ (Terminal /\ error = Null /\ ~status.confirmed =>
             /\ pc = "done"
             /\ result = Some([signature |-> signature, confirmed |-> FALSE,
                               slot |-> None, blockTime |-> None,
                               err |-> "Transaction confirmation timeout"])
             /\ now - startTime >= timeoutMs
             /\ now - startTime < timeoutMs + PollIntervalMs + MaxLatencyMs + MaxJitterMs
             /\ (timeoutMs > 0 => Polls >= 1)
             /\ (timeoutMs = 2000 => Polls \in {1, 2}))

\* C1: against a status source that never reports confirmed/finalized and never
\* fails, waitForConfirmation terminates once timeoutMs has elapsed and returns,
\* without throwing, confirmed = false with the timeout error; with timeoutMs = 2000
\* that is after at most 2 polls
C1_TimeoutTerminates ==
    /\ []C1_TimeoutShape
    /\ (op = "waitForConfirmation") ~> Terminal

C1_Witness ==
    /\ op = "waitForConfirmation" /\ pc = "done" /\ timeoutMs = 2000
    /\ Polls = 2 /\ ~status.confirmed
    /\ result = Some(TimeoutResult("sigA"))
    /\ now - startTime = 2000

\* C2: waitForConfirmation leaves the loop on the first poll whose
\* confirmationStatus is confirmed or finalized: that poll is the last one, it is
\* followed by exactly one getTransaction, and the result is confirmed = true with
\* the slot of that status and the blockTime of the lookup; any other poll goes to
\* sleep and never yields confirmed = true
C2_ReturnsOnFirstConfirmed ==
    op = "waitForConfirmation" =>
       /\ (pc = "wfc_lookup" =>
             /\ reply.status # None
             /\ reply.status[1].confirmationStatus \in {"confirmed", "finalized"}
             /\ status.confirmed
             /\ status.slot = Some(reply.status[1].slot))
       /\ (pc = "wfc_sleep" =>
             /\ (reply.status # None =>
                   reply.status[1].confirmationStatus \notin {"confirmed", "finalized"})
             /\ ~status.confirmed)
       /\ (status.confirmed =>
             /\ pc \in {"wfc_lookup", "done", "raised"}
             /\ Lookups = 1
             /\ log[Len(log)].call = "getTransaction"
             /\ log[Len(log) - 1].call = "getSignatureStatus")
       /\ (~status.confirmed => Lookups = 0)
       /\ (pc = "done" =>
             /\ result # None
             /\ result[1].confirmed = status.confirmed
             /\ result[1].signature = signature)
       /\ (pc = "done" /\ status.confirmed =>
             /\ result[1].slot = status.slot
             /\ result[1].err = status.err
             /\ result[1].blockTime =
                   (IF reply.tx = None THEN None
                    ELSE IF reply.tx[1].blockTime \in {None, Some(0)} THEN None
                    ELSE reply.tx[1].blockTime))

C2_Witness ==
    /\ op = "waitForConfirmation" /\ pc = "done"
    /\ Polls = 2 /\ Lookups = 1
    /\ result # None /\ result[1].confirmed
    /\ result[1].slot = Some(9) /\ result[1].blockTime = Some(1700)

\* C3: confirmation only observes: while waitForConfirmation runs, the number of
\* broadcasts of the transaction does not change, and the only ledger calls it
\* makes are signature-status reads and at most one transaction lookup
C3_ConfirmationIsObservational ==
    /\ [][op' = "waitForConfirmation" => submitted' = submitted]_vars
    /\ [](op = "waitForConfirmation" =>
             /\ \A k \in 1..Len(log) :
                   log[k].call \in {"getSignatureStatus", "getTransaction", "setTimeout"}
             /\ Lookups <= 1)

C3_Witness ==
    /\ op = "waitForConfirmation" /\ pc = "done"
    /\ result = Some(TimeoutResult("sigA"))
    /\ Polls >= 2 /\ Lookups = 0 /\ submitted = 0

\* -------------------------------------------------------- getRecentBlockhash
Fetches == Count(log, "getLatestBlockhash")
Failures == Len(Timers(log))

\* C4: getRecentBlockhash(connection, N) makes at most N fetches and stops at the
\* first success: when it returns, every fetch but the last one failed, the last
\* one is fetch number (failures + 1) <= N, and the value returned is the blockhash
\* that fetch resolved with
C4_StopsAtFirstSuccess ==
    op = "getRecentBlockhash" =>
       /\ Fetches <= maxRetries
       /\ Fetches = (IF pc = "gbh_fetch" \/ pc = "done" THEN Failures + 1 ELSE Failures)
       /\ (pc = "done" =>
             /\ Fetches = i + 1
             /\ log[Len(log)].call = "getLatestBlockhash"
             /\ result = Some(reply)
             /\ reply.blockhash \in Blockhashes
             /\ error = Null)

C4_Witness ==
    /\ op = "getRecentBlockhash" /\ pc = "done" /\ maxRetries = 3
    /\ Failures = 2 /\ Fetches = 3
    /\ result # None /\ result[1].blockhash = "hashB"

\* C5: when all N >= 1 fetches fail, getRecentBlockhash throws the error of the
\* last failed fetch
C5_SurfacesLastError ==
    op = "getRecentBlockhash" /\ pc = "raised" =>
       /\ Fetches = maxRetries
       /\ Failures = maxRetries
       /\ result = None
       /\ (maxRetries >= 1 => error = reply.rejected /\ error \in TransportErrors)

C5_Witness ==
    /\ op = "getRecentBlockhash" /\ pc = "raised" /\ maxRetries = 3
    /\ Fetches = 3 /\ error = "ETIMEDOUT" /\ reply = [rejected |-> "ETIMEDOUT"]
    /\ now = 6000

\* C6: the k-th failed fetch is followed by a wait of 1000 * k ms, and the next
\* fetch is issued only when that wait is over: fetches and waits alternate, and a
\* fetch never starts earlier than the preceding timer's set time plus its delay
C6_LinearBackoff ==
    op = "getRecentBlockhash" =>
       /\ \A k \in 1..Failures : Timers(log)[k].ms = 1000 * k
       /\ \A p \in 1..Len(log) :
             /\ log[p].call = (IF p % 2 = 1 THEN "getLatestBlockhash" ELSE "setTimeout")
             /\ (p > 1 /\ log[p].call = "getLatestBlockhash" =>
                    log[p].at >= log[p - 1].at + log[p - 1].ms)
             /\ (p > 1 => log[p].at >= log[p - 1].at)
       /\ (pc = "gbh_backoff" => delay = 1000 * Failures /\ IsTimer(log[Len(log)]))

C6_Witness ==
    /\ op = "getRecentBlockhash" /\ pc = "done"
    /\ Len(log) = 5
    /\ log[2].ms = 1000 /\ log[4].ms = 2000
    /\ log[3].at - log[1].at = 1000 /\ log[5].at - log[3].at = 2000

\* ------------------------------------------------------ signAndSendTransaction
Names(lg) == [k \in 1..Len(lg) |-> lg[k].call]
IsPrefix(a, b) == Len(a) <= Len(b) /\ \A k \in 1..Len(a) : a[k] = b[k]
Lifecycle(send) == <<"deserialize", "sign", send, "getLatestBlockhash", "confirmTransaction">>

\* C10: within one signAndSendTransaction the steps happen in the order
\* sign -> broadcast -> confirm: the broadcast is issued after the signing, the
\* confirmation is requested only once the broadcast has returned a signature, and
\* the call ends in exactly one outcome: a confirmed result, a failed result, or
\* an error
C10_SignSubmitConfirmOrder ==
    op = "signAndSendTransaction" =>
       /\ \E send \in Broadcasts : IsPrefix(Names(log), Lifecycle(send))
       /\ (\E p \in 1..Len(log) : log[p].call = "confirmTransaction") =>
             (signature \in Signatures /\ submitted >= 1)
       /\ (pc = "done" =>
             /\ Len(log) = 5
             /\ result # None /\ error = Null
             /\ result[1].signature = signature
             /\ result[1].confirmed = (result[1].err = Null))
       /\ (pc = "raised" => result = None /\ error # Null)
       /\ (~Terminal => result = None /\ error = Null)

C10_Witness ==
    /\ op = "signAndSendTransaction" /\ pc = "done"
    /\ Names(log) = Lifecycle("sendRawTransaction")
    /\ result # None /\ ~result[1].confirmed /\ submitted = 1

\* ------------------------------------------------------ utils/quoteUtils.ts

\* ---- bounds of the utility functions' arguments
MaxDecimals == 3         \* decimals ranges over 0 .. this
MaxRawAmount == 110      \* raw amounts range over 0 .. this, and a few larger ones
MaxOutAmount == 20       \* outAmount ranges over 0 .. this, and a few larger ones
MaxHops == 2             \* a routePlan has 0 .. this steps
MaxQuotes == 2           \* a list of quotes to filter holds 0 .. this quotes
MaxPairs == 3            \* a fan-out operation is given 0 .. this token pairs
MaxPolls == 3            \* polls of the trigger node that are followed

\* a JavaScript string is a sequence of one-character strings
DigitChars == <<"0", "1", "2", "3", "4", "5", "6", "7", "8", "9">>
IsDigit(c) == \E k \in 1..10 : DigitChars[k] = c
DigitValue(c) == (CHOOSE k \in 1..10 : DigitChars[k] = c) - 1
Min(a, b) == IF a < b THEN a ELSE b
Abs(n) == IF n < 0 THEN 0 - n ELSE n

\* n.toString() of a non-negative integer or BigInt
RECURSIVE toString(_)
toString(n) ==
    IF n < 10 THEN <<DigitChars[n + 1]>>
    ELSE Append(toString(n \div 10), DigitChars[(n % 10) + 1])

\* BigInt(s) of a string of digits
RECURSIVE BigInt(_)
BigInt(s) ==
    IF s = <<>> THEN 0
    ELSE BigInt(SubSeq(s, 1, Len(s) - 1)) * 10 + DigitValue(s[Len(s)])

\* s.padStart(n, c) and s.padEnd(n, c)
padStart(s, n, c) == IF Len(s) >= n THEN s ELSE [k \in 1..(n - Len(s)) |-> c] \o s
padEnd(s, n, c) == IF Len(s) >= n THEN s ELSE s \o [k \in 1..(n - Len(s)) |-> c]

\* s.replace(/0+$/, '')
RECURSIVE TrimTrailingZeros(_)
TrimTrailingZeros(s) ==
    IF s # <<>> /\ s[Len(s)] = "0" THEN TrimTrailingZeros(SubSeq(s, 1, Len(s) - 1)) ELSE s

\* s.replace(/^0+/, '')
RECURSIVE StripLeadingZeros(_)
StripLeadingZeros(s) ==
    IF s # <<>> /\ s[1] = "0" THEN StripLeadingZeros(Tail(s)) ELSE s

\* the first two pieces of s.split('.'), the second '' when there is none
DotAt(s) ==
    IF \E k \in 1..Len(s) : s[k] = "."
    THEN CHOOSE k \in 1..Len(s) : s[k] = "." /\ \A j \in 1..(k - 1) : s[j] # "."
    ELSE Len(s) + 1
SplitWhole(s) == SubSeq(s, 1, DotAt(s) - 1)
SplitFraction(s) ==
    LET rest == SubSeq(s, DotAt(s) + 1, Len(s))
    IN  SubSeq(rest, 1, DotAt(rest) - 1)

\* ---- BigInt values wider than the model's integers, as their decimal digits

\* BigInt(s).toString() of a string of digits
BigDigits(s) == IF StripLeadingZeros(s) = <<>> THEN <<"0">> ELSE StripLeadingZeros(s)

\* a < b
BigLess(a, b) ==
    \/ Len(a) < Len(b)
    \/ /\ Len(a) = Len(b)
       /\ \E k \in 1..Len(a) :
             /\ DigitValue(a[k]) < DigitValue(b[k])
             /\ \A j \in 1..(k - 1) : a[j] = b[j]

\* a - b - borrow, digit by digit from the right, for strings of one length
RECURSIVE SubDigits(_, _, _)
SubDigits(a, b, borrow) ==
    IF a = <<>> THEN <<>>
    ELSE LET n == Len(a)
             d == DigitValue(a[n]) - DigitValue(b[n]) - borrow
         IN  Append(SubDigits(SubSeq(a, 1, n - 1), SubSeq(b, 1, n - 1),
                              IF d < 0 THEN 1 ELSE 0),
                    DigitChars[(IF d < 0 THEN d + 10 ELSE d) + 1])

\* a - b for a >= b
BigSub(a, b) == BigDigits(SubDigits(a, padStart(b, Len(a), "0"), 0))

\* how often b goes into r, and what is left, for r < 10 * b
RECURSIVE BigTimes(_, _)
BigTimes(r, b) == IF BigLess(r, b) THEN 0 ELSE 1 + BigTimes(BigSub(r, b), b)
RECURSIVE BigRest(_, _)
BigRest(r, b) == IF BigLess(r, b) THEN r ELSE BigRest(BigSub(r, b), b)

\* a / b and a % b by long division
RECURSIVE BigDivMod(_, _)
BigDivMod(a, b) ==
    IF a = <<>> THEN [quotient |-> <<>>, remainder |-> <<"0">>]
    ELSE LET before == BigDivMod(SubSeq(a, 1, Len(a) - 1), b)
             r == BigDigits(Append(before.remainder, a[Len(a)]))
         IN  [quotient |-> Append(before.quotient, DigitChars[BigTimes(r, b) + 1]),
              remainder |-> BigRest(r, b)]
BigDiv(a, b) == BigDigits(BigDivMod(a, b).quotient)
BigMod(a, b) == BigDivMod(a, b).remainder

\* 10^n as digits
PowerOfTen(n) == <<"1">> \o [k \in 1..n |-> "0"]

\* BigInt(10 ** decimals): 10 ** decimals is a double, which is 10^decimals up to
\* 10^22; the double 1e23 is 99999999999999991611392
LargeDecimals == 23
BigIntOfPow10(decimals) ==
    IF decimals < LargeDecimals THEN PowerOfTen(decimals)
    ELSE <<"9", "9", "9", "9", "9", "9", "9", "9", "9", "9", "9", "9", "9", "9", "9",
           "9", "1", "6", "1", "1", "3", "9", "2">>

\* formatAmount(amount, decimals)
formatAmount(amount, decimals) ==
    LET amountNum == BigDigits(amount)
        divisor == BigIntOfPow10(decimals)
        whole == BigDiv(amountNum, divisor)
        fraction == BigMod(amountNum, divisor)
        fractionStr == padStart(fraction, decimals, "0")
        trimmedFraction == TrimTrailingZeros(fractionStr)
    IN  IF fraction = <<"0">> THEN whole
        ELSE whole \o <<".">> \o trimmedFraction

\* parseAmount(amount, decimals) of a string amount
parseAmount(amount, decimals) ==
    LET whole == SplitWhole(amount)
        fraction == SplitFraction(amount)
        padded == padEnd(fraction, decimals, "0")
        paddedFraction == SubSeq(padded, 1, Min(decimals, Len(padded)))
        rawAmount == StripLeadingZeros(whole \o paddedFraction)
    IN  IF rawAmount = <<>> THEN <<"0">> ELSE rawAmount

\* ---- numbers read from strings: NaN, or a value in units of 10^-5
NaN == [nan |-> TRUE, units |-> 0]
IsDecimal(s) ==
    LET body == IF s # <<>> /\ s[1] = "-" THEN Tail(s) ELSE s
    IN  /\ \A k \in 1..Len(body) : IsDigit(body[k]) \/ body[k] = "."
        /\ Cardinality({k \in 1..Len(body) : body[k] = "."}) <= 1
        /\ \E k \in 1..Len(body) : IsDigit(body[k])
DecimalUnits(s) ==
    LET negative == s[1] = "-"
        body == IF negative THEN Tail(s) ELSE s
        fraction == SubSeq(padEnd(SplitFraction(body), 5, "0"), 1, 5)
        magnitude == BigInt(SplitWhole(body)) * (10 ^ 5) + BigInt(fraction)
    IN  IF negative THEN 0 - magnitude ELSE magnitude

\* Number(s) of a non-empty string: the whole string must be a number
Number(s) == IF IsDecimal(s) THEN [nan |-> FALSE, units |-> DecimalUnits(s)] ELSE NaN

\* parseFloat(s): the longest leading part of s that is a number
parseFloat(s) ==
    LET lens == {k \in 1..Len(s) : IsDecimal(SubSeq(s, 1, k))}
    IN  IF lens = {} THEN NaN
        ELSE Number(SubSeq(s, 1, CHOOSE k \in lens : \A j \in lens : j <= k))

\* mutant: a value on a boundary falls into the band below it
NumberLessOrEqual(x, y) == ~x.nan /\ ~y.nan /\ x.units <= y.units

\* x < y on numbers: false when either is NaN
NumberLess(x, y) == ~x.nan /\ ~y.nan /\ x.units < y.units

\* Math.abs
MathAbs(x) == [nan |-> x.nan, units |-> Abs(x.units)]

\* getPriceImpactSeverity(priceImpactPct), with its literals 0.1, 1 and 5
getPriceImpactSeverity(priceImpactPct) ==
    LET impact == MathAbs(parseFloat(priceImpactPct))
    IN  IF NumberLess(impact, Number(<<"0", ".", "1">>)) THEN "low"
        ELSE IF NumberLess(impact, Number(<<"1">>)) THEN "medium"
        ELSE IF NumberLess(impact, Number(<<"5">>)) THEN "high"
        ELSE "very_high"

\* the errors validateQuoteParams collects, in the order of its checks; an asset
\* or amount that is undefined or '' is the empty value
QuoteParamErrors(params) ==
    (IF params.inputMint = "" THEN <<"Input mint address is required">> ELSE <<>>)
    \o (IF params.outputMint = "" THEN <<"Output mint address is required">> ELSE <<>>)
    \o (IF params.amount = <<>> THEN <<"Amount is required">>
        ELSE IF Number(params.amount).nan \/ Number(params.amount).units <= 0
        THEN <<"Amount must be a positive number">>
        ELSE <<>>)
    \o (IF params.inputMint # "" /\ params.outputMint # ""
           /\ params.inputMint = params.outputMint
        THEN <<"Input and output tokens must be different">> ELSE <<>>)
    \o (IF params.slippageBps # None
           /\ (params.slippageBps[1] < 0 \/ params.slippageBps[1] > 10000)
        THEN <<"Slippage must be between 0 and 10000 basis points">> ELSE <<>>)
    \o (IF params.platformFeeBps # None
           /\ (params.platformFeeBps[1] < 0 \/ params.platformFeeBps[1] > 10000)
        THEN <<"Platform fee must be between 0 and 10000 basis points">> ELSE <<>>)

\* mutant: validation stops at the first violated rule
validateQuoteParamsFirstOnly(params) ==
    [valid |-> Len(QuoteParamErrors(params)) = 0,
     errors |-> SubSeq(QuoteParamErrors(params), 1, Min(1, Len(QuoteParamErrors(params))))]

\* validateQuoteParams(params)
validateQuoteParams(params) ==
    [valid |-> Len(QuoteParamErrors(params)) = 0,
     errors |-> QuoteParamErrors(params)]

\* mutant: the quotient is rounded up
calculateMinimumOutputCeil(outAmount, slippageBps) ==
    toString((BigInt(outAmount) * (10000 - slippageBps) + 9999) \div 10000)

\* calculateMinimumOutput(outAmount, slippageBps)
calculateMinimumOutput(outAmount, slippageBps) ==
    LET amount == BigInt(outAmount)
        slippageFactor == 10000 - slippageBps
        minAmount == (amount * slippageFactor) \div 10000
    IN  toString(minAmount)

\* mutant: for ExactOut the larger input wins
compareQuotesMoreIsBetter(quoteA, quoteB) ==
    IF quoteA.swapMode = "ExactIn"
    THEN IF BigInt(quoteA.outAmount) > BigInt(quoteB.outAmount) THEN 1
         ELSE IF BigInt(quoteA.outAmount) < BigInt(quoteB.outAmount) THEN -1
         ELSE 0
    ELSE IF BigInt(quoteA.inAmount) > BigInt(quoteB.inAmount) THEN 1
         ELSE IF BigInt(quoteA.inAmount) < BigInt(quoteB.inAmount) THEN -1
         ELSE 0

\* compareQuotes(quoteA, quoteB): the direction is read from quoteA alone
compareQuotes(quoteA, quoteB) ==
    IF quoteA.swapMode = "ExactIn"
    THEN IF BigInt(quoteA.outAmount) > BigInt(quoteB.outAmount) THEN 1
         ELSE IF BigInt(quoteA.outAmount) < BigInt(quoteB.outAmount) THEN -1
         ELSE 0
    ELSE IF BigInt(quoteA.inAmount) < BigInt(quoteB.inAmount) THEN 1
         ELSE IF BigInt(quoteA.inAmount) > BigInt(quoteB.inAmount) THEN -1
         ELSE 0

\* ---------------------------------------------- utils/transactionUtils.ts

PriorityFeeLevels == <<"none", "low", "medium", "high", "very_high">>
PRIORITY_FEES ==
    [none |-> 0, low |-> 10000, medium |-> 100000, high |-> 500000, very_high |-> 1000000]

\* the default of the computeUnits parameter
DefaultComputeUnits == 200000

\* mutant: the price instruction is emitted for every level
createPriorityFeeInstructionsAlways(priorityLevel, computeUnits) ==
    <<[instruction |-> "setComputeUnitLimit",
       value |-> IF computeUnits = None THEN DefaultComputeUnits ELSE computeUnits[1]],
      [instruction |-> "setComputeUnitPrice", value |-> PRIORITY_FEES[priorityLevel]]>>

\* createPriorityFeeInstructions(priorityLevel, computeUnits = 200_000)
createPriorityFeeInstructions(priorityLevel, computeUnits) ==
    LET units == IF computeUnits = None THEN DefaultComputeUnits ELSE computeUnits[1]
        microLamports == PRIORITY_FEES[priorityLevel]
    IN  <<[instruction |-> "setComputeUnitLimit", value |-> units]>>
        \o (IF microLamports > 0
            THEN <<[instruction |-> "setComputeUnitPrice", value |-> microLamports]>>
            ELSE <<>>)

\* ------------------------------------------------------ utils/routeUtils.ts

\* the distinct values f gives along a sequence, as a Set collects them
Collected(seq, f(_)) == {f(seq[k]) : k \in 1..Len(seq)}

\* the steps of the routePlan that start at the quote's input mint
FirstHops(quote) ==
    {k \in 1..Len(quote.routePlan) : quote.routePlan[k].inputMint = quote.inputMint}

\* mutant: only a single hop counts as direct
IsDirectRouteSingleHop(totalHops, splitCount) == totalHops = 1

\* quote.routePlan.length === 1 || splitCount === 1
IsDirectRoute(totalHops, splitCount) == totalHops = 1 \/ splitCount = 1

\* the totalFees map: per feeMint, the sum of the feeAmounts
RECURSIVE FeeSum(_, _)
FeeSum(plan, mint) ==
    IF plan = <<>> THEN 0
    ELSE FeeSum(Tail(plan), mint)
         + (IF Head(plan).feeMint = mint THEN BigInt(Head(plan).feeAmount) ELSE 0)

StepInputMint(step) == step.inputMint
StepOutputMint(step) == step.outputMint
StepFeeMint(step) == step.feeMint
StepLabel(step) == step.label

\* getRouteSummary(quote); a step is its swapInfo and its percent
getRouteSummary(quote) ==
    LET plan == quote.routePlan
        splitCount == IF Len(plan) > 0 THEN Cardinality(FirstHops(quote)) ELSE 0
    IN  [totalHops |-> Len(plan),
         dexesUsed |-> Collected(plan, StepLabel) \ {""},
         uniqueTokens |-> Collected(plan, StepInputMint) \cup Collected(plan, StepOutputMint),
         totalFees |-> [m \in Collected(plan, StepFeeMint) |-> FeeSum(plan, m)],
         splitRoutes |-> splitCount,
         isDirectRoute |-> IsDirectRoute(Len(plan), splitCount)]


\* routeDexes: the labels of the steps, without the missing ones
RouteDexes(quote) == Collected(quote.routePlan, StepLabel) \ {""}

\* the elements of an array of labels
Elements(seq) == {seq[k] : k \in 1..Len(seq)}

\* mutant: a route of exactly maxHops steps is rejected too
KeepsQuoteBelowMaxHops(quote, criteria) ==
    /\ criteria.maxPriceImpact # None
         => ~NumberLess(criteria.maxPriceImpact[1], MathAbs(parseFloat(quote.priceImpactPct)))
    /\ criteria.maxHops # None => ~(Len(quote.routePlan) >= criteria.maxHops[1])
    /\ criteria.directOnly => ~(Len(quote.routePlan) > 1)
    /\ (criteria.includeDexes # None /\ Len(criteria.includeDexes[1]) > 0)
         => RouteDexes(quote) \cap Elements(criteria.includeDexes[1]) # {}
    /\ (criteria.excludeDexes # None /\ Len(criteria.excludeDexes[1]) > 0)
         => RouteDexes(quote) \cap Elements(criteria.excludeDexes[1]) = {}

\* the callback of quotes.filter: false at the first criterion the quote fails
KeepsQuote(quote, criteria) ==
    IF criteria.maxPriceImpact # None
       /\ NumberLess(criteria.maxPriceImpact[1], MathAbs(parseFloat(quote.priceImpactPct)))
    THEN FALSE
    ELSE IF criteria.maxHops # None /\ Len(quote.routePlan) > criteria.maxHops[1]
    THEN FALSE
    ELSE IF criteria.directOnly /\ Len(quote.routePlan) > 1
    THEN FALSE
    ELSE IF criteria.includeDexes # None /\ Len(criteria.includeDexes[1]) > 0
            /\ ~(\E dex \in RouteDexes(quote) : dex \in Elements(criteria.includeDexes[1]))
    THEN FALSE
    ELSE IF criteria.excludeDexes # None /\ Len(criteria.excludeDexes[1]) > 0
            /\ (\E dex \in RouteDexes(quote) : dex \in Elements(criteria.excludeDexes[1]))
    THEN FALSE
    ELSE TRUE

\* filterRoutes(quotes, criteria)
filterRoutes(quotes, criteria) ==
    LET Keeps(quote) == KeepsQuote(quote, criteria)
    IN  SelectSeq(quotes, Keeps)


\* totalFee += BigInt(step.swapInfo.feeAmount), over the steps
RECURSIVE TotalFee(_)
TotalFee(plan) ==
    IF plan = <<>> THEN 0 ELSE BigInt(Head(plan).feeAmount) + TotalFee(Tail(plan))

DefaultFeeDecimals == 6

\* calculateRouteFees(quote, feeDecimals = 6): `${whole}.${fraction padded}`
calculateRouteFees(quote, feeDecimals) ==
    LET decimals == IF feeDecimals = None THEN DefaultFeeDecimals ELSE feeDecimals[1]
        totalFee == toString(TotalFee(quote.routePlan))
        divisor == BigIntOfPow10(decimals)
        whole == BigDiv(totalFee, divisor)
        fraction == BigMod(totalFee, divisor)
    IN  whole \o <<".">> \o padStart(fraction, decimals, "0")


\* ------------------------------------------------- transport: JupiterClient

\* errors.join(', ')
RECURSIVE Join(_)
Join(errors) ==
    IF Len(errors) = 0 THEN ""
    ELSE IF Len(errors) = 1 THEN errors[1]
    ELSE errors[1] \o ", " \o Join(Tail(errors))

\* the error JupiterClient.getQuote throws for parameters that do not validate
InvalidQuoteError(params) ==
    "Invalid quote parameters: " \o Join(validateQuoteParams(params).errors)

\* the parameters callers ask quotes with: a pair that validates, one with equal
\* mints, and one without input mint and amount and with a slippage out of range
QuoteRequests ==
    {[inputMint |-> "SOL", outputMint |-> "USDC", amount |-> <<"5">>,
      slippageBps |-> None, platformFeeBps |-> None],
     [inputMint |-> "SOL", outputMint |-> "SOL", amount |-> <<"5">>,
      slippageBps |-> None, platformFeeBps |-> None],
     [inputMint |-> "", outputMint |-> "USDC", amount |-> <<>>,
      slippageBps |-> Some(10001), platformFeeBps |-> None]}

\* mutant: the request is sent first and the parameters are validated afterwards
InvokeGetQuoteSendsFirst ==
    /\ op = "idle" /\ calls < MaxCalls
    /\ op' = "getQuote"
    /\ calls' = calls + 1
    /\ retryCount' = None
    /\ log' = <<Call("GET", now)>>
    /\ \E params \in QuoteRequests :
          /\ input' = [fn |-> "getQuote", params |-> params]
          /\ IF ~validateQuoteParams(params).valid
             THEN pc' = "raised" /\ error' = InvalidQuoteError(params)
             ELSE pc' = "jc_flight" /\ UNCHANGED error
    /\ UNCHANGED <<now, keypair, submitted, timeoutMs, startTime, status, maxRetries,
                   i, lastError, delay, reply, signature, result, options,
                   config, response>>
    /\ UNCHANGED <<operation, feeQuote, staticData, output>>

\* getQuote up to its first await: the validation, which throws before anything
\* is sent, then the first send of the request through quoteApi
InvokeGetQuote ==
    /\ op = "idle" /\ calls < MaxCalls
    /\ op' = "getQuote"
    /\ calls' = calls + 1
    /\ retryCount' = None
    /\ \E params \in QuoteRequests :
          /\ input' = [fn |-> "getQuote", params |-> params]
          /\ IF ~validateQuoteParams(params).valid
             THEN /\ pc' = "raised"
                  /\ error' = InvalidQuoteError(params)
                  /\ log' = <<>>
             ELSE /\ pc' = "jc_flight"
                  /\ log' = <<Call("GET", now)>>
                  /\ UNCHANGED error
    /\ UNCHANGED <<now, keypair, submitted, timeoutMs, startTime, status, maxRetries,
                   i, lastError, delay, reply, signature, result, options,
                   config, response>>
    /\ UNCHANGED <<operation, feeQuote, staticData, output>>

\* the response interceptor of setupRetryInterceptor, then getQuote's own
\* continuation: return response.data, or handleError
JcResponse ==
    /\ op = "getQuote" /\ pc = "jc_flight"
    /\ \E r \in JupiterResponses :
          /\ response' = r
          /\ IF r.status = 200
             THEN /\ pc' = "done"
                  /\ result' = Some([data |-> "quote"])
                  /\ UNCHANGED <<retryCount, delay, log, error>>
             ELSE IF ShouldRetry(r, config, retryCount)
             THEN /\ pc' = "jc_backoff"
                  /\ retryCount' = Some(NextRetryCount(retryCount))
                  /\ delay' = RetryDelay(NextRetryCount(retryCount))
                  /\ log' = Append(log, Timer(now, RetryDelay(NextRetryCount(retryCount))))
                  /\ UNCHANGED <<result, error>>
             ELSE /\ pc' = "raised"
                  /\ error' = handleError(r)
                  /\ UNCHANGED <<retryCount, delay, log, result>>
    /\ UNCHANGED <<op, now, calls, keypair, submitted, timeoutMs, startTime, status,
                   maxRetries, i, lastError, reply, signature, options, config>>
    /\ UNCHANGED extVars

\* the backoff timer fires: api.request(config) sends the request again
JcBackoffFires ==
    /\ op = "getQuote" /\ pc = "jc_backoff"
    /\ now' = now + delay
    /\ log' = Append(log, Call("GET", now'))
    /\ pc' = "jc_flight"
    /\ UNCHANGED <<op, calls, keypair, submitted, timeoutMs, startTime, status,
                   maxRetries, i, lastError, delay, reply, signature, result, error,
                   options, config, retryCount, response>>
    /\ UNCHANGED extVars

\* ---------------------------------------------------- transport: PerpClient

\* a request through PerpClient.client (getMarkets): first send
InvokeGetMarkets ==
    /\ op = "idle" /\ calls < MaxCalls
    /\ op' = "getMarkets" /\ pc' = "perp_flight"
    /\ calls' = calls + 1
    /\ log' = <<Call("GET", now)>>
    /\ UNCHANGED <<now, keypair, submitted, timeoutMs, startTime, status, maxRetries,
                   i, lastError, delay, reply, signature, result, error, options,
                   config, retryCount, response>>
    /\ UNCHANGED extVars

\* the response interceptor of the PerpClient constructor
PerpResponse ==
    /\ op = "getMarkets" /\ pc = "perp_flight"
    /\ \E r \in PerpResponses :
          /\ response' = r
          /\ IF r.status = 200
             THEN /\ pc' = "done"
                  /\ result' = Some([data |-> "markets"])
                  /\ UNCHANGED <<delay, log, error>>
             ELSE IF PerpShouldRetry(r, Count(log, "GET"))
             THEN /\ pc' = "perp_wait"
                  /\ delay' = PerpRetryAfterMs(r)
                  /\ log' = Append(log, Timer(now, PerpRetryAfterMs(r)))
                  /\ UNCHANGED <<result, error>>
             ELSE /\ pc' = "raised"
                  /\ error' = "AxiosError"
                  /\ UNCHANGED <<delay, log, result>>
    /\ UNCHANGED <<op, now, calls, keypair, submitted, timeoutMs, startTime, status,
                   maxRetries, i, lastError, reply, signature, options, config,
                   retryCount>>
    /\ UNCHANGED extVars

\* the Retry-After timer fires: this.client.request(error.config)
PerpWaitFires ==
    /\ op = "getMarkets" /\ pc = "perp_wait"
    /\ Count(log, "GET") < MaxPerpSends
    /\ now' = now + delay
    /\ log' = Append(log, Call("GET", now'))
    /\ pc' = "perp_flight"
    /\ UNCHANGED <<op, calls, keypair, submitted, timeoutMs, startTime, status,
                   maxRetries, i, lastError, delay, reply, signature, result, error,
                   options, config, retryCount, response>>
    /\ UNCHANGED extVars

\* the caller constructs the JupiterClient with its options
TransportInit ==
    /\ TxInit
    /\ options \in ConfigInputs
    /\ config = JupiterClientConfig(options)
    /\ retryCount = None /\ response = NoResponse
    /\ ExtIdle

TransportNext ==
    \/ InvokeGetQuote
    \/ JcResponse
    \/ JcBackoffFires
    \/ InvokeGetMarkets
    \/ PerpResponse
    \/ PerpWaitFires
    \/ Return

TransportSpec == TransportInit /\ [][TransportNext]_vars

\* ------------------------------------------------------ transport properties
Sends == Count(log, "GET")
Retries == Len(Timers(log))

\* the max-retry count the caller configured (3 when the caller gave none)
ConfiguredMaxRetries == IF options.maxRetries = None THEN 3 ELSE options.maxRetries[1]

\* C7: one JupiterClient request is re-sent at most maxRetries times, maxRetries
\* being the count the caller configured (default 3): at most 1 + maxRetries sends
C7_BoundedByConfiguredMaxRetries ==
    op = "getQuote" => Sends <= 1 + ConfiguredMaxRetries

\* what the interceptor does bound: the sends stay within 1 + config.maxRetries, the
\* count the constructor stored, and a request that is given up on a 429 used all
\* of them
JupiterRetryBound ==
    op = "getQuote" =>
       /\ Sends <= 1 + config.maxRetries
       /\ (pc = "raised" /\ response.status = 429 /\ config.retryOnRateLimit =>
              Sends = 1 + config.maxRetries)

\* C8: the wait before the k-th retry of a request is 2^k * 1000 ms (2000, 4000,
\* 8000: each twice the one before), the request is sent again only when that wait
\* is over, and _retryCount goes up by exactly one on each 429 that is retried and
\* on nothing else
C8_ExponentialBackoff ==
    /\ [](op = "getQuote" =>
             /\ \A k \in 1..Retries :
                   /\ Timers(log)[k].ms = (2 ^ k) * 1000
                   /\ (k > 1 => Timers(log)[k].ms = 2 * Timers(log)[k - 1].ms)
             /\ \A p \in 1..Len(log) :
                   /\ log[p].call = (IF p % 2 = 1 THEN "GET" ELSE "setTimeout")
                   /\ (p > 1 /\ log[p].call = "GET" =>
                          log[p].at = log[p - 1].at + log[p - 1].ms)
             /\ retryCount = (IF Retries = 0 THEN None ELSE Some(Retries))
             /\ (pc = "jc_backoff" => response.status = 429 /\ delay = (2 ^ Retries) * 1000))
    /\ [][op = "getQuote" /\ op' = "getQuote" /\ retryCount' # retryCount =>
             /\ response'.status = 429
             /\ retryCount' = Some((IF retryCount = None THEN 0 ELSE retryCount[1]) + 1)]_vars

C8_Witness ==
    /\ op = "getQuote" /\ pc = "jc_flight" /\ retryCount = Some(3)
    /\ Len(log) = 7
    /\ log[2].ms = 2000 /\ log[4].ms = 4000 /\ log[6].ms = 8000
    /\ now = 14000

\* C9: in the PerpClient transport every 429 is answered by a wait of the
\* Retry-After header's seconds (1 s when the header is absent) and then one
\* re-send; nothing caps this, so a call ends only on a response that is not a 429,
\* and a non-429 error is rethrown without a re-send
C9_PerpRetriesWithoutCap ==
    op = "getMarkets" =>
       /\ \A p \in 1..Len(log) :
             /\ log[p].call = (IF p % 2 = 1 THEN "GET" ELSE "setTimeout")
             /\ (p > 1 /\ log[p].call = "GET" =>
                    log[p].at = log[p - 1].at + log[p - 1].ms)
       /\ Sends = (IF pc = "perp_wait" THEN Retries ELSE Retries + 1)
       /\ (pc = "perp_wait" =>
             /\ response.status = 429
             /\ delay = (IF response.retryAfter = None THEN 1000
                         ELSE response.retryAfter[1] * 1000)
             /\ log[Len(log)] = Timer(now, delay)
             /\ (Sends < MaxPerpSends => ENABLED PerpWaitFires))
       /\ (Terminal => response.status # 429 /\ log[Len(log)].call = "GET")
       /\ (pc = "done" => response.status = 200 /\ error = Null)
       /\ (pc = "raised" => response.status \notin {200, 429} /\ result = None)

C9_Witness ==
    /\ op = "getMarkets" /\ pc = "perp_wait" /\ Sends = 3
    /\ log[2].ms = 1000 /\ log[4].ms = 2000 /\ log[6].ms = 0
    /\ response.status = 429


\* ------------------------------------- SolanaClient and the swap node actions

\* what a caller may pass as a transaction: a base64 string or a transaction
TxObjects == {"VersionedTransaction", "Transaction"}
TxInputs == Base64Inputs \cup TxObjects

\* typeof transaction === 'string' ? deserializeTransaction(transaction) : transaction
AsTransaction(given) ==
    IF given \in Base64Inputs THEN deserializeTransaction(given) ELSE given

\* the local steps before the first ledger call of simulate / estimate
Decoded(given, t) == IF given \in Base64Inputs THEN <<Call("deserialize", t)>> ELSE <<>>

\* the value of connection.simulateTransaction
SimValues ==
    [err : {Null} \cup LedgerErrs,
     logs : {None, Some("Program log: success")},
     unitsConsumed : {None, Some(0), Some(1400)}]

\* the fee the ledger quotes with getFeeForMessage: null (None) or lamports
FeeQuotes == {None, Some(5000), Some(10000)}

\* mutant: a simulation is reported as a success whatever its err
SimulationOkAlways(v) ==
    [success |-> TRUE,
     logs |-> v.logs,
     unitsConsumed |-> IF v.unitsConsumed = Some(0) THEN None ELSE v.unitsConsumed,
     error |-> IF v.err # Null THEN JsonStringify(v.err) ELSE Undefined]

\* the value simulateTransaction returns from its try block:
\*   success: !err, logs: logs || undefined, unitsConsumed: unitsConsumed || undefined,
\*   error: err ? JSON.stringify(err) : undefined
SimulationOk(v) ==
    [success |-> v.err = Null,
     logs |-> v.logs,
     unitsConsumed |-> IF v.unitsConsumed = Some(0) THEN None ELSE v.unitsConsumed,
     error |-> IF v.err # Null THEN JsonStringify(v.err) ELSE Undefined]

\* the value simulateTransaction returns from its catch block:
\*   error instanceof Error ? error.message : 'Unknown simulation error'
SimulationCaught(e) ==
    [success |-> FALSE,
     logs |-> None,
     unitsConsumed |-> None,
     error |-> IF e \in TransportErrors THEN e ELSE "Unknown simulation error"]

\* SolanaClient.simulateTransaction: {...result, err: result.error, returnData: null,
\* accounts: null}
WrapSimulation(r) ==
    [success |-> r.success, logs |-> r.logs, unitsConsumed |-> r.unitsConsumed,
     error |-> r.error, err |-> r.error, returnData |-> Null, accounts |-> Null]

\* the fallback of fee.value || 5000
DefaultFee == 5000

\* fee.value || 5000
FeeOrDefault(value) ==
    IF value = None \/ value = Some(0) THEN DefaultFee ELSE value[1]

\* the rejection of a JupiterClient call, as its handleError words it
ApiErrors == {handleError(r) : r \in {x \in JupiterResponses : x.status # 200}}

\* ---- SolanaClient.signTransaction (synchronous)
InvokeSignTransaction ==
    /\ op = "idle" /\ calls < MaxCalls
    /\ op' = "signTransaction"
    /\ calls' = calls + 1
    /\ \E tx \in TxObjects, signerKnown \in BOOLEAN :
          IF ~hasWallet(keypair)
          THEN /\ pc' = "raised"
               /\ error' = "No wallet configured for signing"
               /\ log' = <<>>
               /\ result' = None
          ELSE IF ~signerKnown
          THEN /\ pc' = "raised"
               /\ error' = "unknown signer"
               /\ log' = <<>>
               /\ result' = None
          ELSE /\ pc' = "done"
               /\ error' = Null
               /\ log' = <<Call("sign", now)>>
               /\ result' = Some([signed |-> tx])
    /\ UNCHANGED <<now, keypair, submitted, timeoutMs, startTime, status, maxRetries,
                   i, lastError, delay, reply, signature>>
    /\ UNCHANGED <<httpVars, extVars>>

\* ---- SolanaClient.simulateTransaction

\* up to the await of connection.simulateTransaction
InvokeSimulateTransaction ==
    /\ op = "idle" /\ calls < MaxCalls
    /\ op' = "simulateTransaction"
    /\ calls' = calls + 1
    /\ \E given \in TxInputs :
          IF AsTransaction(given) = "throws"
          THEN /\ pc' = "raised"
               /\ error' = "deserialize failed"
               /\ log' = <<>>
          ELSE /\ pc' = "sim_flight"
               /\ error' = Null
               /\ log' = Decoded(given, now) \o <<Call("simulateTransaction", now)>>
    /\ UNCHANGED <<now, keypair, submitted, timeoutMs, startTime, status, maxRetries,
                   i, lastError, delay, reply, signature, result>>
    /\ UNCHANGED <<httpVars, extVars>>

\* the ledger resolves with the simulation's value
SimReply ==
    /\ op = "simulateTransaction" /\ pc = "sim_flight"
    /\ \E v \in SimValues, lat \in Latencies :
          /\ now' = now + lat
          /\ reply' = [simulation |-> v]
          /\ result' = Some(WrapSimulation(SimulationOk(v)))
    /\ pc' = "done"
    /\ UNCHANGED <<op, calls, keypair, submitted, log, timeoutMs, startTime, status,
                   maxRetries, i, lastError, delay, signature, error>>
    /\ UNCHANGED <<httpVars, extVars>>

\* the ledger call rejects: the catch block turns the error into a value
SimFails ==
    /\ op = "simulateTransaction" /\ pc = "sim_flight"
    /\ \E e \in TransportErrors :
          /\ reply' = [rejected |-> e]
          /\ result' = Some(WrapSimulation(SimulationCaught(e)))
    /\ pc' = "done"
    /\ UNCHANGED <<op, now, calls, keypair, submitted, log, timeoutMs, startTime,
                   status, maxRetries, i, lastError, delay, signature, error>>
    /\ UNCHANGED <<httpVars, extVars>>

\* ---- estimateTransactionFee

\* SolanaClient.estimateTransactionFee: only a VersionedTransaction is quoted by
\* the ledger, anything else gets the default at once
InvokeEstimateTransactionFee ==
    /\ op = "idle" /\ calls < MaxCalls
    /\ op' = "estimateTransactionFee"
    /\ calls' = calls + 1
    /\ \E given \in TxInputs :
          IF AsTransaction(given) = "throws"
          THEN /\ pc' = "raised"
               /\ error' = "deserialize failed"
               /\ log' = <<>>
               /\ result' = None
          ELSE IF AsTransaction(given) = "VersionedTransaction"
          THEN /\ pc' = "fee_flight"
               /\ error' = Null
               /\ log' = Decoded(given, now) \o <<Call("getFeeForMessage", now)>>
               /\ result' = None
          ELSE /\ pc' = "done"
               /\ error' = Null
               /\ log' = Decoded(given, now)
               /\ result' = Some(DefaultFee)
    /\ UNCHANGED <<now, keypair, submitted, timeoutMs, startTime, status, maxRetries,
                   i, lastError, delay, reply, signature>>
    /\ UNCHANGED <<httpVars, extVars>>

\* utils estimateTransactionFee(connection, transaction): both kinds of
\* transaction are quoted by the ledger, a legacy one after compileMessage()
InvokeUtilEstimateTransactionFee ==
    /\ op = "idle" /\ calls < MaxCalls
    /\ op' = "utils.estimateTransactionFee"
    /\ calls' = calls + 1
    /\ \E tx \in TxObjects :
          log' = (IF tx = "Transaction" THEN <<Call("compileMessage", now)>> ELSE <<>>)
                 \o <<Call("getFeeForMessage", now)>>
    /\ pc' = "fee_flight"
    /\ UNCHANGED <<now, keypair, submitted, timeoutMs, startTime, status, maxRetries,
                   i, lastError, delay, reply, signature, result, error>>
    /\ UNCHANGED <<httpVars, extVars>>

\* getFeeForMessage resolves with the ledger's quote: return fee.value || 5000
FeeReply ==
    /\ op \in {"estimateTransactionFee", "utils.estimateTransactionFee"}
    /\ pc = "fee_flight"
    /\ \E lat \in Latencies : now' = now + lat
    /\ reply' = [fee |-> feeQuote]
    /\ result' = Some(FeeOrDefault(feeQuote))
    /\ pc' = "done"
    /\ UNCHANGED <<op, calls, keypair, submitted, log, timeoutMs, startTime, status,
                   maxRetries, i, lastError, delay, signature, error>>
    /\ UNCHANGED <<httpVars, extVars>>

\* getFeeForMessage rejects: nothing catches it
FeeFails ==
    /\ op \in {"estimateTransactionFee", "utils.estimateTransactionFee"}
    /\ pc = "fee_flight"
    /\ \E e \in TransportErrors : error' = e /\ reply' = [rejected |-> e]
    /\ pc' = "raised"
    /\ UNCHANGED <<op, now, calls, keypair, submitted, log, timeoutMs, startTime,
                   status, maxRetries, i, lastError, delay, signature, result>>
    /\ UNCHANGED <<httpVars, extVars>>

\* ---- the ultra node's executeSwap and signAndSendSwap operations

\* executeSwap up to its first await: jupiterClient.getQuote
InvokeExecuteSwap ==
    /\ op = "idle" /\ calls < MaxCalls
    /\ op' = "executeSwap" /\ operation' = "executeSwap"
    /\ calls' = calls + 1
    /\ pc' = "node_quote"
    /\ log' = <<Call("getQuote", now)>>
    /\ UNCHANGED <<now, keypair, submitted, timeoutMs, startTime, status, maxRetries,
                   i, lastError, delay, reply, signature, result, error>>
    /\ UNCHANGED <<httpVars, feeQuote, staticData, input, output>>

\* the quote arrives: the wallet check, then jupiterClient.getSwapTransaction
NodeQuoteReply ==
    /\ op = "executeSwap" /\ pc = "node_quote"
    /\ \E lat \in Latencies : now' = now + lat
    /\ IF getWalletAddress(keypair) = None
       THEN /\ pc' = "raised"
            /\ error' = "Wallet private key is required for swaps"
            /\ UNCHANGED log
       ELSE /\ pc' = "node_swaptx"
            /\ log' = Append(log, Call("getSwapTransaction", now'))
            /\ UNCHANGED error
    /\ UNCHANGED <<op, calls, keypair, submitted, timeoutMs, startTime, status,
                   maxRetries, i, lastError, delay, reply, signature, result>>
    /\ UNCHANGED <<httpVars, extVars>>

\* getQuote rejects
NodeQuoteFails ==
    /\ op = "executeSwap" /\ pc = "node_quote"
    /\ \E e \in ApiErrors : error' = e
    /\ pc' = "raised"
    /\ UNCHANGED <<op, now, calls, keypair, submitted, log, timeoutMs, startTime,
                   status, maxRetries, i, lastError, delay, reply, signature, result>>
    /\ UNCHANGED <<httpVars, extVars>>

\* signAndSendSwap up to its first await: the wallet check, then
\* jupiterClient.getSwapTransaction for the quote the caller supplied
InvokeSignAndSendSwap ==
    /\ op = "idle" /\ calls < MaxCalls
    /\ op' = "signAndSendSwap" /\ operation' = "signAndSendSwap"
    /\ calls' = calls + 1
    /\ IF getWalletAddress(keypair) = None
       THEN /\ pc' = "raised"
            /\ error' = "Wallet private key is required for signing"
            /\ log' = <<>>
       ELSE /\ pc' = "node_swaptx"
            /\ error' = Null
            /\ log' = <<Call("getSwapTransaction", now)>>
    /\ UNCHANGED <<now, keypair, submitted, timeoutMs, startTime, status, maxRetries,
                   i, lastError, delay, reply, signature, result>>
    /\ UNCHANGED <<httpVars, feeQuote, staticData, input, output>>

\* the swap transaction arrives: solanaClient.signAndSendTransaction runs up to
\* the first await of sendAndConfirmTransaction
NodeSwapTxReply ==
    /\ op \in {"executeSwap", "signAndSendSwap"} /\ pc = "node_swaptx"
    /\ op' = "signAndSendTransaction"
    /\ \E lat \in Latencies : now' = now + lat
    /\ \E b64 \in Base64Inputs, signerKnown \in BOOLEAN :
          IF ~hasWallet(keypair)
          THEN /\ pc' = "raised"
               /\ error' = "No wallet configured for signing"
               /\ UNCHANGED log
          ELSE IF deserializeTransaction(b64) = "throws"
          THEN /\ pc' = "raised"
               /\ error' = "deserialize failed"
               /\ UNCHANGED log
          ELSE IF ~signerKnown
          THEN /\ pc' = "raised"
               /\ error' = "unknown signer"
               /\ log' = Append(log, Call("deserialize", now'))
          ELSE /\ pc' = "sct_send"
               /\ UNCHANGED error
               /\ log' = log \o SignThenSend(deserializeTransaction(b64), now')
    /\ UNCHANGED <<calls, keypair, submitted, timeoutMs, startTime, status,
                   maxRetries, i, lastError, delay, reply, signature, result>>
    /\ UNCHANGED <<httpVars, extVars>>

\* getSwapTransaction rejects
NodeSwapTxFails ==
    /\ op \in {"executeSwap", "signAndSendSwap"} /\ pc = "node_swaptx"
    /\ \E e \in ApiErrors : error' = e
    /\ pc' = "raised"
    /\ UNCHANGED <<op, now, calls, keypair, submitted, log, timeoutMs, startTime,
                   status, maxRetries, i, lastError, delay, reply, signature, result>>
    /\ UNCHANGED <<httpVars, extVars>>

\* a SolanaClient over a ledger that has a fee quote or none for the transaction
ClientInit ==
    /\ TxInit
    /\ HttpIdle
    /\ operation = "none"
    /\ feeQuote \in FeeQuotes
    /\ input = NoInput /\ output = <<>>
    /\ staticData = NoStaticData

ClientNext ==
    \/ InvokeSignTransaction
    \/ InvokeSignAndSendTransaction
    \/ SctSendReply
    \/ SctSendFails
    \/ SctBlockhashReply
    \/ SctBlockhashFails
    \/ SctConfirmReply
    \/ SctConfirmFails
    \/ InvokeSimulateTransaction
    \/ SimReply
    \/ SimFails
    \/ InvokeEstimateTransactionFee
    \/ InvokeUtilEstimateTransactionFee
    \/ FeeReply
    \/ FeeFails
    \/ InvokeExecuteSwap
    \/ NodeQuoteReply
    \/ NodeQuoteFails
    \/ InvokeSignAndSendSwap
    \/ NodeSwapTxReply
    \/ NodeSwapTxFails
    \/ Return

ClientSpec == ClientInit /\ [][ClientNext]_vars


\* ---------------------------------------------------- SolanaClient properties
LedgerWrites == Broadcasts \cup {"sign", "getLatestBlockhash", "confirmTransaction", "setTimeout"}
FeeOps == {"estimateTransactionFee", "utils.estimateTransactionFee"}

\* C11: without a keypair, signTransaction and signAndSendTransaction raise 'No
\* wallet configured for signing' in the step that invokes them, with nothing
\* signed, broadcast, confirmed or retried; the executeSwap and signAndSendSwap
\* node operations raise at their wallet check, before the swap transaction is
\* requested, so no broadcast follows.
C11_NoWalletRaisesBeforeBroadcast ==
    ~keypair =>
        /\ submitted = 0
        /\ \A k \in 1..Len(log) : log[k].call \notin LedgerWrites
        /\ (op \in {"signTransaction", "signAndSendTransaction"} =>
                /\ pc = "raised"
                /\ error = "No wallet configured for signing"
                /\ log = <<>>
                /\ result = None)
        /\ (operation = "signAndSendSwap" =>
                /\ pc = "raised"
                /\ error = "Wallet private key is required for signing"
                /\ log = <<>>)
        /\ (operation = "executeSwap" =>
                /\ op = "executeSwap"
                /\ pc \in {"node_quote", "raised"}
                /\ Names(log) = <<"getQuote">>
                /\ (pc = "raised" =>
                        error \in {"Wallet private key is required for swaps"} \cup ApiErrors))

C11_Witness ==
    /\ ~keypair
    /\ op = "signAndSendTransaction" /\ pc = "raised"
    /\ error = "No wallet configured for signing"
    /\ submitted = 0 /\ log = <<>>

\* the executeSwap operation has raised at its wallet check
NoWalletSwapRaised ==
    /\ ~keypair
    /\ operation = "executeSwap" /\ pc = "raised"
    /\ error = "Wallet private key is required for swaps"

\* C12 as stated: simulateTransaction never throws.
C12_SimulationNeverThrows ==
    op = "simulateTransaction" => pc # "raised"

\* what a settled simulateTransaction call holds: a value that reports the
\* ledger's answer, or the error of a string that did not decode
SimulationSettled ==
    /\ \A k \in 1..Len(log) : log[k].call \notin LedgerWrites
    /\ (pc = "raised" =>
            /\ error = "deserialize failed"
            /\ log = <<>>
            /\ reply = NoReply)
    /\ (pc = "done" =>
            /\ error = Null
            /\ result # None
            /\ "rejected" \in DOMAIN reply =>
                    /\ result[1].success = FALSE
                    /\ result[1].error = reply.rejected
            /\ "simulation" \in DOMAIN reply =>
                    /\ result[1].success = (reply.simulation.err = Null)
                    /\ (reply.simulation.err # Null =>
                            result[1].error = JsonStringify(reply.simulation.err))
                    /\ (reply.simulation.err = Null => result[1].error = Undefined)
                    /\ result[1].logs = reply.simulation.logs
                    /\ result[1].unitsConsumed \in {None, reply.simulation.unitsConsumed})

\* C12 (amended): simulateTransaction never submits, and once its argument is a
\* decoded transaction it never throws: a program-level error comes back as
\* success=false with the error and the logs / unitsConsumed the ledger gave, a
\* clean run as success=true, and a rejected ledger call as {success:false,
\* error:<message>}. The only throw is SolanaClient.simulateTransaction given a
\* string that does not decode, before the ledger is called.
C12_SimulationErrorsAreData ==
    /\ [](op = "simulateTransaction" => SimulationSettled)
    /\ [][op' = "simulateTransaction" => submitted' = submitted]_vars

C12_Witness ==
    /\ op = "simulateTransaction" /\ pc = "done"
    /\ "rejected" \in DOMAIN reply
    /\ result[1].success = FALSE
    /\ result[1].error = reply.rejected

\* a program-level error has come back as data, with the ledger's logs
SimulationErrorAsData ==
    /\ op = "simulateTransaction" /\ pc = "done"
    /\ "simulation" \in DOMAIN reply
    /\ reply.simulation.err # Null
    /\ result[1].success = FALSE
    /\ result[1].logs # None

\* the fee the claim expects: the ledger's quote when it has one, else 5000
ExpectedFee == IF feeQuote # None THEN feeQuote[1] ELSE DefaultFee

\* C13: fee estimation returns the ledger-quoted fee whenever the ledger supplies
\* one, for legacy and versioned transactions alike, and 5000 exactly when the
\* ledger has no quote; an answered call does not raise.
C13_FeeFollowsLedgerQuote ==
    op \in FeeOps =>
        /\ (pc = "done" => result = Some(ExpectedFee))
        /\ ("fee" \in DOMAIN reply => pc = "done")

\* what does hold: a call that asked the ledger returns its quote, or 5000 for
\* none; utils estimateTransactionFee always asks
FeeFollowsLedgerWhenAsked ==
    /\ (op \in FeeOps /\ pc = "done" /\ "fee" \in DOMAIN reply =>
            result = Some(ExpectedFee))
    /\ (op = "utils.estimateTransactionFee" /\ pc = "done" => "fee" \in DOMAIN reply)

\* SolanaClient.estimateTransactionFee has answered 5000 for a legacy transaction
\* that the ledger quotes at another fee
LegacyFeeIgnoresLedger ==
    /\ op = "estimateTransactionFee" /\ pc = "done"
    /\ reply = NoReply
    /\ feeQuote # None /\ result # Some(feeQuote[1])


\* ------------------------------------------- the utility functions, applied

\* raw amounts as decimal strings
RawAmounts == {toString(n) : n \in (0..MaxRawAmount) \cup {1005, 1500, 120000}}
OutAmounts == {toString(n) : n \in (0..MaxOutAmount) \cup {9999, 10000, 10001, 200000}}
SlippageSamples == {0, 1, 50, 9999, 10000}
QuoteAmounts == {toString(n) : n \in {999, 1000000, 1050000}}
Mints == {"SOL", "USDC", "BONK"}

\* priceImpactPct strings: "0", "0.05", "0.09999", "0.1", "0.5", "0.99999", "1",
\* "4.99999", "5", "12.5", "-0.05", "-6", "abc"
ImpactSamples ==
    {<<"0">>, <<"0", ".", "0", "5">>, <<"0", ".", "0", "9", "9", "9", "9">>,
     <<"0", ".", "1">>, <<"0", ".", "5">>, <<"0", ".", "9", "9", "9", "9", "9">>,
     <<"1">>, <<"4", ".", "9", "9", "9", "9", "9">>, <<"5">>,
     <<"1", "2", ".", "5">>, <<"-", "0", ".", "0", "5">>, <<"-", "6">>,
     <<"a", "b", "c">>}

\* amount strings of a quote request: absent or '', "0", "5", "-1", "abc", "2.5"
AmountSamples ==
    {<<>>, <<"0">>, <<"5">>, <<"-", "1">>, <<"a", "b", "c">>, <<"2", ".", "5">>}

\* the steps of a route plan: swapInfo's mints, label and fee, and the percent
RouteSteps ==
    [inputMint : {"SOL", "USDC"}, outputMint : {"USDC", "BONK"}, label : {"", "Orca"},
     feeMint : {"SOL"}, feeAmount : {toString(25)}, percent : {40, 60, 100}]
RoutePlans == UNION {[1..n -> RouteSteps] : n \in 0..MaxHops}

\* a step of a given DEX label ("" is a step without label)
StepOf(label) ==
    [inputMint |-> "SOL", outputMint |-> "USDC", label |-> label,
     feeMint |-> "SOL", feeAmount |-> toString(25), percent |-> 100]

\* the quotes that are filtered: price impacts "0.5", "1", "-6" and "abc" over
\* plans of no, one and two steps
FilterQuotes ==
    [priceImpactPct : {<<"0", ".", "5">>, <<"1">>, <<"-", "6">>, <<"a", "b", "c">>},
     routePlan : {<<>>, <<StepOf("Orca")>>, <<StepOf("")>>,
                  <<StepOf("Orca"), StepOf("Raydium")>>,
                  <<StepOf("Raydium"), StepOf("Raydium")>>}]
FilterQuoteLists == UNION {[1..n -> FilterQuotes] : n \in 0..MaxQuotes}

\* the criteria: maxPriceImpact absent or 1 (percent), maxHops absent, 0 or 1
FilterCriteria ==
    [maxPriceImpact : {None, Some([nan |-> FALSE, units |-> 100000])},
     maxHops : {None, Some(0), Some(1)},
     directOnly : BOOLEAN,
     includeDexes : {None, Some(<<>>), Some(<<"Orca">>)},
     excludeDexes : {None, Some(<<"Raydium">>)}]

\* route plans whose steps charge 0, 500 or 1000
FeePlans ==
    UNION {[1..n -> {[StepOf("Orca") EXCEPT !.feeAmount = toString(fee)] :
                        fee \in {0, 500, 1000}}] : n \in 0..MaxHops}

\* the applications of the utility functions that are followed
UtilInputs ==
    [fn : {"createPriorityFeeInstructions"},
     priorityLevel : {PriorityFeeLevels[k] : k \in 1..Len(PriorityFeeLevels)},
     computeUnits : {None, Some(1400000)}]
    \cup [fn : {"calculateMinimumOutput"}, outAmount : OutAmounts,
          slippageBps : SlippageSamples]
    \cup [fn : {"formatAmount"}, amount : RawAmounts \cup {PowerOfTen(LargeDecimals)},
          decimals : (0..MaxDecimals) \cup {LargeDecimals}]
    \cup [fn : {"validateQuoteParams"},
          params : [inputMint : {"", "SOL", "USDC"}, outputMint : {"", "SOL", "USDC"},
                    amount : AmountSamples,
                    slippageBps : {None, Some(-1), Some(0), Some(50), Some(10000),
                                   Some(10001)},
                    platformFeeBps : {None, Some(-1), Some(20), Some(10001)}]]
    \cup [fn : {"compareQuotes"},
          quoteA : [swapMode : {"ExactIn", "ExactOut"}, inAmount : QuoteAmounts,
                    outAmount : QuoteAmounts],
          quoteB : [swapMode : {"ExactIn", "ExactOut"}, inAmount : QuoteAmounts,
                    outAmount : QuoteAmounts]]
    \cup [fn : {"getPriceImpactSeverity"}, first : ImpactSamples, second : ImpactSamples]
    \cup [fn : {"getRouteSummary"}, quote : [inputMint : {"SOL"}, routePlan : RoutePlans]]
    \cup [fn : {"filterRoutes"}, quotes : FilterQuoteLists, criteria : FilterCriteria]
    \cup [fn : {"calculateRouteFees"}, quote : [routePlan : FeePlans],
          feeDecimals : {None, Some(0), Some(2)}]

\* the caller holds the arguments of one application
UtilInit ==
    /\ TxInit /\ ~keypair
    /\ HttpIdle
    /\ operation = "none" /\ feeQuote = None /\ staticData = NoStaticData
    /\ input \in UtilInputs
    /\ output = <<>>

ApplyCreatePriorityFeeInstructions ==
    /\ input.fn = "createPriorityFeeInstructions" /\ output = <<>>
    /\ output' = <<createPriorityFeeInstructions(input.priorityLevel, input.computeUnits)>>
    /\ UNCHANGED <<txVars, httpVars, operation, feeQuote, staticData, input>>

ApplyCalculateMinimumOutput ==
    /\ input.fn = "calculateMinimumOutput" /\ output = <<>>
    /\ output' = <<calculateMinimumOutput(input.outAmount, input.slippageBps)>>
    /\ UNCHANGED <<txVars, httpVars, operation, feeQuote, staticData, input>>

ApplyFormatAmount ==
    /\ input.fn = "formatAmount" /\ output = <<>>
    /\ output' = <<formatAmount(input.amount, input.decimals)>>
    /\ UNCHANGED <<txVars, httpVars, operation, feeQuote, staticData, input>>

\* the formatted amount is parsed back with the same decimals
ApplyParseAmount ==
    /\ input.fn = "formatAmount" /\ Len(output) = 1
    /\ output' = Append(output, parseAmount(output[1], input.decimals))
    /\ UNCHANGED <<txVars, httpVars, operation, feeQuote, staticData, input>>

ApplyValidateQuoteParams ==
    /\ input.fn = "validateQuoteParams" /\ output = <<>>
    /\ output' = <<validateQuoteParams(input.params)>>
    /\ UNCHANGED <<txVars, httpVars, operation, feeQuote, staticData, input>>

\* the two quotes are compared both ways round
ApplyCompareQuotes ==
    /\ input.fn = "compareQuotes" /\ output = <<>>
    /\ output' = <<compareQuotes(input.quoteA, input.quoteB),
                   compareQuotes(input.quoteB, input.quoteA)>>
    /\ UNCHANGED <<txVars, httpVars, operation, feeQuote, staticData, input>>

\* two price impacts are classified
ApplyGetPriceImpactSeverity ==
    /\ input.fn = "getPriceImpactSeverity" /\ output = <<>>
    /\ output' = <<getPriceImpactSeverity(input.first),
                   getPriceImpactSeverity(input.second)>>
    /\ UNCHANGED <<txVars, httpVars, operation, feeQuote, staticData, input>>

ApplyGetRouteSummary ==
    /\ input.fn = "getRouteSummary" /\ output = <<>>
    /\ output' = <<getRouteSummary(input.quote)>>
    /\ UNCHANGED <<txVars, httpVars, operation, feeQuote, staticData, input>>

ApplyFilterRoutes ==
    /\ input.fn = "filterRoutes" /\ output = <<>>
    /\ output' = <<filterRoutes(input.quotes, input.criteria)>>
    /\ UNCHANGED <<txVars, httpVars, operation, feeQuote, staticData, input>>

ApplyCalculateRouteFees ==
    /\ input.fn = "calculateRouteFees" /\ output = <<>>
    /\ output' = <<calculateRouteFees(input.quote, input.feeDecimals)>>
    /\ UNCHANGED <<txVars, httpVars, operation, feeQuote, staticData, input>>

UtilNext ==
    \/ ApplyCreatePriorityFeeInstructions
    \/ ApplyCalculateMinimumOutput
    \/ ApplyFormatAmount
    \/ ApplyParseAmount
    \/ ApplyValidateQuoteParams
    \/ ApplyCompareQuotes
    \/ ApplyGetPriceImpactSeverity
    \/ ApplyGetRouteSummary
    \/ ApplyFilterRoutes
    \/ ApplyCalculateRouteFees

UtilSpec == UtilInit /\ [][UtilNext]_vars


\* ------------------------------------------------ utility function properties
Applied(name) == input.fn = name /\ output # <<>>

\* C14: createPriorityFeeInstructions emits setComputeUnitLimit first, and
\* setComputeUnitPrice second with the level's micro-fee exactly when that fee is
\* nonzero: one instruction for 'none', two for every other level; the micro-fee
\* strictly increases along none < low < medium < high < very_high.
C14_PriorityFeeInstructions ==
    /\ \A k \in 1..(Len(PriorityFeeLevels) - 1) :
          PRIORITY_FEES[PriorityFeeLevels[k]] < PRIORITY_FEES[PriorityFeeLevels[k + 1]]
    /\ (Applied("createPriorityFeeInstructions") =>
          LET instructions == output[1]
              microLamports == PRIORITY_FEES[input.priorityLevel]
          IN  /\ instructions[1].instruction = "setComputeUnitLimit"
              /\ instructions[1].value = (IF input.computeUnits = None
                                          THEN DefaultComputeUnits
                                          ELSE input.computeUnits[1])
              /\ Len(instructions) = (IF input.priorityLevel = "none" THEN 1 ELSE 2)
              /\ (Len(instructions) = 2 <=> microLamports # 0)
              /\ (Len(instructions) = 2 =>
                     instructions[2] = [instruction |-> "setComputeUnitPrice",
                                        value |-> microLamports]))

C14_Witness ==
    /\ Applied("createPriorityFeeInstructions")
    /\ input.priorityLevel = "none"
    /\ Len(output[1]) = 1

\* level 'high' has produced the pair of instructions
PriorityFeePairEmitted ==
    /\ Applied("createPriorityFeeInstructions")
    /\ input.priorityLevel = "high"
    /\ Len(output[1]) = 2 /\ output[1][2].value = 500000

\* C15 as stated: calculateMinimumOutput(outAmount, slippageBps) is
\* floor(outAmount * (10000 - slippageBps) / 10000), is at most outAmount, and
\* equals outAmount if and only if slippageBps is 0.
C15_MinimumOutputBounds ==
    Applied("calculateMinimumOutput") =>
        LET a == BigInt(input.outAmount)
            m == BigInt(output[1])
        IN  /\ output[1] = toString((a * (10000 - input.slippageBps)) \div 10000)
            /\ m <= a
            /\ (m = a <=> input.slippageBps = 0)

\* C15 (amended): for slippageBps in [0,10000] and outAmount >= 0 the result is
\* floor(outAmount * (10000 - slippageBps) / 10000) and at most outAmount; it
\* equals outAmount if and only if slippageBps is 0 or outAmount is 0.
C15_MinimumOutputBoundsAboveZero ==
    Applied("calculateMinimumOutput") =>
        LET a == BigInt(input.outAmount)
            m == BigInt(output[1])
        IN  /\ output[1] = toString((a * (10000 - input.slippageBps)) \div 10000)
            /\ m <= a
            /\ (m = a <=> (input.slippageBps = 0 \/ a = 0))

C15_Witness ==
    /\ Applied("calculateMinimumOutput")
    /\ input.outAmount = toString(10001) /\ input.slippageBps = 50
    /\ output[1] = toString(9950)

\* an outAmount of 0 is returned unchanged under a nonzero slippage
ZeroOutputUnchanged ==
    /\ Applied("calculateMinimumOutput")
    /\ input.outAmount = toString(0) /\ input.slippageBps = 50
    /\ output[1] = input.outAmount

\* C16: parseAmount(formatAmount(x, d), d) = x for every raw amount x (a
\* non-negative integer as a decimal string) and every decimals d, among them
\* x = 0, d = 0, and fractions with leading or trailing zeros.
C16_FormatParseRoundTrip ==
    input.fn = "formatAmount" /\ Len(output) = 2 => output[2] = input.amount

\* what does hold: the round trip for decimals whose power of ten is a double
RoundTripWithExactDivisor ==
    input.fn = "formatAmount" /\ Len(output) = 2 /\ input.decimals < LargeDecimals =>
        output[2] = input.amount

\* a fraction with leading zeros has gone round
RoundTripLeadingZeros ==
    /\ input.fn = "formatAmount" /\ Len(output) = 2
    /\ input.amount = toString(1005) /\ input.decimals = 3
    /\ output[1] = <<"1", ".", "0", "0", "5">>
    /\ output[2] = input.amount

\* a fraction with trailing zeros has gone round
RoundTripTrailingZeros ==
    /\ input.fn = "formatAmount" /\ Len(output) = 2
    /\ input.amount = toString(1500) /\ input.decimals = 3
    /\ output[1] = <<"1", ".", "5">>
    /\ output[2] = input.amount

\* 10^23 with 23 decimals is formatted as 1.00000000000000008388608 and parsed
\* back as another amount
RoundTripLosesPrecision ==
    /\ input.fn = "formatAmount" /\ Len(output) = 2
    /\ input.amount = PowerOfTen(LargeDecimals) /\ input.decimals = LargeDecimals
    /\ output[1] = <<"1", ".">> \o [k \in 1..16 |-> "0"]
                    \o <<"8", "3", "8", "8", "6", "0", "8">>
    /\ output[2] # input.amount

\* the rules of a quote request that params violates
ViolatedRules(params) ==
    {r \in {"input", "output", "amount", "different", "slippage", "platformFee"} :
        \/ r = "input" /\ params.inputMint = ""
        \/ r = "output" /\ params.outputMint = ""
        \/ r = "amount" /\ ~(/\ params.amount # <<>>
                             /\ ~Number(params.amount).nan
                             /\ Number(params.amount).units > 0)
        \/ r = "different" /\ params.inputMint # "" /\ params.inputMint = params.outputMint
        \/ r = "slippage" /\ params.slippageBps # None
                          /\ params.slippageBps[1] \notin 0..10000
        \/ r = "platformFee" /\ params.platformFeeBps # None
                             /\ params.platformFeeBps[1] \notin 0..10000}

\* the messages validateQuoteParams has for a rule
RuleMessages(r) ==
    IF r = "input" THEN {"Input mint address is required"}
    ELSE IF r = "output" THEN {"Output mint address is required"}
    ELSE IF r = "amount" THEN {"Amount is required", "Amount must be a positive number"}
    ELSE IF r = "different" THEN {"Input and output tokens must be different"}
    ELSE IF r = "slippage" THEN {"Slippage must be between 0 and 10000 basis points"}
    ELSE {"Platform fee must be between 0 and 10000 basis points"}

\* C17: validateQuoteParams reports every violated rule: errors holds exactly one
\* entry per violated rule among input present, output present, amount present
\* and strictly positive, input differs from output, slippageBps in [0,10000]
\* when given, platformFeeBps in [0,10000] when given; valid is true if and only
\* if no rule is violated.
C17_ReportsEveryViolatedRule ==
    Applied("validateQuoteParams") =>
        LET errors == output[1].errors
            violated == ViolatedRules(input.params)
        IN  /\ Len(errors) = Cardinality(violated)
            /\ \A r \in violated :
                  Cardinality({k \in 1..Len(errors) : errors[k] \in RuleMessages(r)}) = 1
            /\ (output[1].valid <=> violated = {})

C17_Witness ==
    /\ Applied("validateQuoteParams")
    /\ input.params.inputMint = "SOL" /\ input.params.outputMint = "SOL"
    /\ input.params.amount = <<"5">>
    /\ input.params.slippageBps = Some(10001)
    /\ ~output[1].valid
    /\ output[1].errors = <<"Input and output tokens must be different",
                            "Slippage must be between 0 and 10000 basis points">>

\* the order of the amounts the direction of quoteA looks at: 1 when quoteA is
\* the better quote, -1 when quoteB is, 0 when they tie
AmountOrder(quoteA, quoteB) ==
    LET better ==
            IF quoteA.swapMode = "ExactIn"
            THEN BigInt(quoteA.outAmount) - BigInt(quoteB.outAmount)
            ELSE BigInt(quoteB.inAmount) - BigInt(quoteA.inAmount)
    IN  IF better > 0 THEN 1 ELSE IF better < 0 THEN -1 ELSE 0

\* C18 as stated: for all quotes a and b, compareQuotes(a, b) =
\* -compareQuotes(b, a), and the result follows the amounts: for ExactIn the
\* higher outAmount is 1, for ExactOut the lower inAmount is 1, equal amounts 0.
C18_CompareQuotesAntisymmetric ==
    Applied("compareQuotes") =>
        /\ output[1] = 0 - output[2]
        /\ output[1] = AmountOrder(input.quoteA, input.quoteB)

\* C18 (amended): for all quotes a and b of the same swap direction,
\* compareQuotes(a, b) = -compareQuotes(b, a); the result follows the amounts of
\* the first quote's direction: for ExactIn the higher outAmount is 1, for
\* ExactOut the lower inAmount is 1, equal amounts 0.
C18_CompareQuotesSameDirection ==
    Applied("compareQuotes") =>
        /\ (input.quoteA.swapMode = input.quoteB.swapMode => output[1] = 0 - output[2])
        /\ output[1] = AmountOrder(input.quoteA, input.quoteB)
        /\ output[2] = AmountOrder(input.quoteB, input.quoteA)

C18_Witness ==
    /\ Applied("compareQuotes")
    /\ input.quoteA.swapMode = "ExactIn" /\ input.quoteB.swapMode = "ExactIn"
    /\ input.quoteA.outAmount = toString(1050000)
    /\ input.quoteB.outAmount = toString(1000000)
    /\ output = <<1, -1>>

\* two quotes of different directions, each the worse one by its own direction
MixedDirectionsBothLose ==
    /\ Applied("compareQuotes")
    /\ input.quoteA.swapMode # input.quoteB.swapMode
    /\ output = <<-1, -1>>

\* the band of a price impact given in units of 10^-5
BandOf(units) ==
    IF units < 10000 THEN "low"
    ELSE IF units < 100000 THEN "medium"
    ELSE IF units < 500000 THEN "high"
    ELSE "very_high"
Bands == <<"low", "medium", "high", "very_high">>
BandRank(band) == CHOOSE k \in 1..4 : Bands[k] = band

\* C19 as stated: low for impact < 0.1, medium for 0.1 <= impact < 1, high for
\* 1 <= impact < 5, very_high for impact >= 5, and the band never decreases as
\* the impact increases.
C19_SeverityBands ==
    Applied("getPriceImpactSeverity") =>
        LET p == Number(input.first)
            q == Number(input.second)
        IN  /\ (~p.nan => output[1] = BandOf(p.units))
            /\ (~p.nan /\ ~q.nan /\ p.units <= q.units =>
                    BandRank(output[1]) <= BandRank(output[2]))

\* C19 (amended): the band is that of the magnitude of the impact: low for
\* |impact| < 0.1, medium for 0.1 <= |impact| < 1, high for 1 <= |impact| < 5,
\* very_high for |impact| >= 5; '0.1' is medium and '0.09999' is low, and the
\* band never decreases as |impact| increases.
C19_SeverityBandsOfMagnitude ==
    Applied("getPriceImpactSeverity") =>
        LET p == Number(input.first)
            q == Number(input.second)
        IN  /\ (~p.nan => output[1] = BandOf(Abs(p.units)))
            /\ (~p.nan /\ ~q.nan /\ Abs(p.units) <= Abs(q.units) =>
                    BandRank(output[1]) <= BandRank(output[2]))
            /\ (input.first = <<"0", ".", "1">> => output[1] = "medium")
            /\ (input.first = <<"0", ".", "0", "9", "9", "9", "9">> => output[1] = "low")

C19_Witness ==
    /\ Applied("getPriceImpactSeverity")
    /\ input.first = <<"0", ".", "1">> /\ output[1] = "medium"
    /\ input.second = <<"0", ".", "0", "9", "9", "9", "9">> /\ output[2] = "low"

\* an impact of -6 has been classified very_high
NegativeImpactVeryHigh ==
    /\ Applied("getPriceImpactSeverity")
    /\ input.first = <<"-", "6">> /\ output[1] = "very_high"

\* C20: getRouteSummary sets splitRoutes to the number of route-plan steps whose
\* input mint is the quote's input mint, and isDirectRoute to true exactly when
\* the route has one hop or splitRoutes is 1.
C20_SplitRoutesAndDirect ==
    Applied("getRouteSummary") =>
        LET plan == input.quote.routePlan
            summary == output[1]
        IN  /\ summary.totalHops = Len(plan)
            /\ summary.splitRoutes =
                  Cardinality({k \in 1..Len(plan) : plan[k].inputMint = input.quote.inputMint})
            /\ (summary.isDirectRoute <=> (Len(plan) = 1 \/ summary.splitRoutes = 1))

C20_Witness ==
    /\ Applied("getRouteSummary")
    /\ Len(input.quote.routePlan) = 2
    /\ \A k \in 1..2 : /\ input.quote.routePlan[k].inputMint = "SOL"
                       /\ input.quote.routePlan[k].outputMint = "USDC"
    /\ input.quote.routePlan[1].percent = 60 /\ input.quote.routePlan[2].percent = 40
    /\ output[1].splitRoutes = 2
    /\ ~output[1].isDirectRoute

\* ------------------------------------------------------ filterRoutes properties

\* the positions of the input that the result keeps, in their order
KeptInOrder(quotes, kept, filtered) ==
    /\ Len(filtered) = Cardinality(kept)
    /\ \A k \in kept : filtered[Cardinality({j \in kept : j <= k})] = quotes[k]

NoCriterion(criteria) ==
    /\ criteria.maxPriceImpact = None /\ criteria.maxHops = None
    /\ ~criteria.directOnly
    /\ criteria.includeDexes \in {None, Some(<<>>)}
    /\ criteria.excludeDexes \in {None, Some(<<>>)}

\* the criteria other than the price impact
SatisfiesRouteCriteria(quote, criteria) ==
    /\ criteria.maxHops # None => Len(quote.routePlan) <= criteria.maxHops[1]
    /\ criteria.directOnly => Len(quote.routePlan) <= 1
    /\ criteria.includeDexes \notin {None, Some(<<>>)}
         => \E k \in 1..Len(quote.routePlan) :
               /\ quote.routePlan[k].label # ""
               /\ quote.routePlan[k].label \in Elements(criteria.includeDexes[1])
    /\ criteria.excludeDexes \notin {None, Some(<<>>)}
         => \A k \in 1..Len(quote.routePlan) :
               quote.routePlan[k].label \notin Elements(criteria.excludeDexes[1])

\* the price impact, read as a number, is <= maxPriceImpact
ImpactAtMost(quote, criteria) ==
    LET impact == parseFloat(quote.priceImpactPct)
    IN  ~impact.nan /\ impact.units <= criteria.maxPriceImpact[1].units

\* the magnitude of the price impact is not above maxPriceImpact
ImpactMagnitudeNotAbove(quote, criteria) ==
    LET impact == parseFloat(quote.priceImpactPct)
    IN  impact.nan \/ Abs(impact.units) <= criteria.maxPriceImpact[1].units

\* C21 as stated: filterRoutes keeps a quote if and only if it satisfies every
\* supplied criterion (price impact <= maxPriceImpact, hop count <= maxHops, direct
\* when directOnly, a step label in includeDexes, no step label in excludeDexes);
\* the result is a subsequence of the input in the original order and equals the
\* input when no criterion is supplied.
C21_FilterKeepsExactlySatisfying ==
    Applied("filterRoutes") =>
        LET quotes == input.quotes
            criteria == input.criteria
            kept == {k \in 1..Len(quotes) :
                        /\ criteria.maxPriceImpact # None
                             => ImpactAtMost(quotes[k], criteria)
                        /\ SatisfiesRouteCriteria(quotes[k], criteria)}
        IN  /\ KeptInOrder(quotes, kept, output[1])
            /\ NoCriterion(criteria) => output[1] = quotes

\* C21, amended: the price impact criterion is on the magnitude of the price
\* impact, and rejects only a magnitude above maxPriceImpact; directOnly asks for
\* at most one step; the other criteria, the order and the no-criterion case are
\* as stated.
C21_FilterKeepsByMagnitude ==
    Applied("filterRoutes") =>
        LET quotes == input.quotes
            criteria == input.criteria
            kept == {k \in 1..Len(quotes) :
                        /\ criteria.maxPriceImpact # None
                             => ImpactMagnitudeNotAbove(quotes[k], criteria)
                        /\ SatisfiesRouteCriteria(quotes[k], criteria)}
        IN  /\ KeptInOrder(quotes, kept, output[1])
            /\ NoCriterion(criteria) => output[1] = quotes

\* two quotes of which the first is rejected by excludeDexes and the second kept
C21_Witness ==
    /\ Applied("filterRoutes")
    /\ Len(input.quotes) = 2
    /\ input.criteria.excludeDexes = Some(<<"Raydium">>)
    /\ input.criteria.maxHops = Some(1)
    /\ output[1] = <<input.quotes[2]>>
    /\ input.quotes[1] # input.quotes[2]

\* a negative price impact within maxPriceImpact is rejected for its magnitude
NegativeImpactRejected ==
    /\ Applied("filterRoutes")
    /\ input.quotes = <<[priceImpactPct |-> <<"-", "6">>, routePlan |-> <<>>]>>
    /\ input.criteria.maxPriceImpact # None
    /\ input.criteria.maxHops = None /\ ~input.criteria.directOnly
    /\ input.criteria.includeDexes = None /\ input.criteria.excludeDexes = None
    /\ output[1] = <<>>

\* --------------------------------------- node operations that fan out getQuote

\* the operations that issue several getQuote calls under one Promise.all
FanOutOperations == {"getQuotesMultiple", "compareQuotes", "compareRoutes"}

\* the getQuote calls an operation makes: one per token pair, and for
\* compareRoutes two for the one pair (onlyDirectRoutes true and false)
FanOutRequests(o) ==
    IF o = "compareRoutes" THEN {<<p, p>> : p \in QuoteRequests}
    ELSE UNION {[1..n -> QuoteRequests] : n \in 0..MaxPairs}

\* a getQuote promise: pending, fulfilled with the quote of its request, or rejected
PendingTask == [state |-> "pending", quote |-> 0, error |-> ""]
FulfilledTask(k) == [state |-> "fulfilled", quote |-> k, error |-> ""]
RejectedTask(e) == [state |-> "rejected", quote |-> 0, error |-> e]

\* getQuote up to its first await: the validation, then quoteApi.get
StartGetQuote(params) ==
    IF validateQuoteParams(params).valid THEN PendingTask
    ELSE RejectedTask(InvalidQuoteError(params))

\* the entries of getQuotesMultiple: { success, pair, quote } or { success, pair, error }
MultipleEntries(pairs, tasks) ==
    [k \in 1..Len(tasks) |->
        [success |-> tasks[k].state = "fulfilled", pair |-> pairs[k],
         quote |-> tasks[k].quote, error |-> tasks[k].error]]

\* the entries of compareQuotes: { pair, quote }
CompareEntries(pairs, tasks) ==
    [k \in 1..Len(tasks) |-> [pair |-> pairs[k], quote |-> tasks[k].quote]]

\* the json an operation returns once Promise.all has resolved
FanOutJson(o, pairs, tasks) ==
    IF o = "getQuotesMultiple"
    THEN [totalPairs |-> Len(pairs),
          successfulQuotes |-> Cardinality({k \in 1..Len(tasks) : tasks[k].state = "fulfilled"}),
          quotes |-> MultipleEntries(pairs, tasks)]
    ELSE IF o = "compareQuotes"
    THEN [quotes |-> CompareEntries(pairs, tasks)]
    ELSE [directRoute |-> [available |-> TRUE, quote |-> tasks[1].quote],
          multiHopRoute |-> [available |-> TRUE, quote |-> tasks[2].quote]]

\* the argument check that precedes the requests
TooFewPairs(o, pairs) ==
    \/ o = "getQuotesMultiple" /\ Len(pairs) = 0
    \/ o = "compareQuotes" /\ Len(pairs) < 2

\* Promise.all over the tasks: getQuotesMultiple catches inside each task, so its
\* Promise.all resolves once no task is pending; the others reject with `failed`,
\* the error of the task that rejected first, and resolve once all are fulfilled
AllSettled(tasks) == \A k \in 1..Len(tasks) : tasks[k].state # "pending"
AllFulfilled(tasks) == \A k \in 1..Len(tasks) : tasks[k].state = "fulfilled"
FanOutContinues(o, pairs, tasks, failed) ==
    IF o = "getQuotesMultiple"
    THEN IF AllSettled(tasks)
         THEN pc' = "done" /\ result' = Some(FanOutJson(o, pairs, tasks)) /\ UNCHANGED error
         ELSE pc' = "fanout" /\ UNCHANGED <<result, error>>
    ELSE IF failed # ""
    THEN pc' = "raised" /\ error' = failed /\ UNCHANGED result
    ELSE IF AllFulfilled(tasks)
    THEN pc' = "done" /\ result' = Some(FanOutJson(o, pairs, tasks)) /\ UNCHANGED error
    ELSE pc' = "fanout" /\ UNCHANGED <<result, error>>

\* the error of the first task that is already rejected, "" when none is
FirstRejection(tasks) ==
    LET rejected == {k \in 1..Len(tasks) : tasks[k].state = "rejected"}
    IN  IF rejected = {} THEN ""
        ELSE tasks[CHOOSE k \in rejected : \A j \in rejected : k <= j].error

\* the operation up to `await Promise.all(...)`: every getQuote call is started,
\* the requests of the pairs that validate are sent
InvokeFanOut ==
    /\ op = "idle" /\ calls < MaxCalls
    /\ \E o \in FanOutOperations : \E pairs \in FanOutRequests(o) :
          /\ op' = o /\ operation' = o
          /\ input' = [fn |-> o, pairs |-> pairs]
          /\ IF TooFewPairs(o, pairs)
             THEN /\ pc' = "raised"
                  /\ error' = (IF o = "getQuotesMultiple"
                               THEN "At least one token pair is required"
                               ELSE "At least two token pairs are required for comparison")
                  /\ output' = <<>> /\ log' = <<>>
                  /\ UNCHANGED result
             ELSE LET tasks == [k \in 1..Len(pairs) |-> StartGetQuote(pairs[k])]
                      sent == Cardinality({k \in 1..Len(pairs) : tasks[k].state = "pending"})
                  IN  /\ output' = tasks
                      /\ log' = [j \in 1..sent |-> Call("GET", now)]
                      /\ FanOutContinues(o, pairs, tasks, FirstRejection(tasks))
    /\ calls' = calls + 1
    /\ UNCHANGED <<now, keypair, submitted, timeoutMs, startTime, status, maxRetries,
                   i, lastError, delay, reply, signature>>
    /\ UNCHANGED <<httpVars, feeQuote, staticData>>

\* one of the requests in flight is answered, in any order: its getQuote returns
\* the quote or throws handleError's error. The operation continues if it is still
\* waiting; an answer that arrives after the operation has thrown changes nothing
\* but the task
FanOutReply ==
    /\ op \in FanOutOperations
    /\ \E k \in {j \in 1..Len(output) : output[j].state = "pending"} :
       \E settled \in {FulfilledTask(k)} \cup {RejectedTask(e) : e \in ApiErrors} :
          LET tasks == [output EXCEPT ![k] = settled]
          IN  /\ output' = tasks
              /\ IF pc = "fanout"
                 THEN FanOutContinues(op, input.pairs, tasks, settled.error)
                 ELSE UNCHANGED <<pc, result, error>>
    /\ \E lat \in Latencies : now' = now + lat
    /\ UNCHANGED <<op, calls, keypair, submitted, log, timeoutMs, startTime, status,
                   maxRetries, i, lastError, delay, reply, signature>>
    /\ UNCHANGED <<httpVars, operation, feeQuote, staticData, input>>

FanOutInit == TxInit /\ ~keypair /\ HttpIdle /\ ExtIdle

FanOutNext ==
    \/ InvokeFanOut
    \/ FanOutReply
    \/ Return

FanOutSpec == FanOutInit /\ [][FanOutNext]_vars

\* ----------------------------------------------------------- fan-out properties

\* the entries an operation returned, in request order
ReturnedEntries ==
    IF op = "compareRoutes" THEN <<result[1].directRoute, result[1].multiHopRoute>>
    ELSE result[1].quotes

\* an entry marks its request as a success with the quote, or as a failure with
\* the error
MarksOutcome(entry, task) ==
    IF task.state = "fulfilled"
    THEN /\ entry.quote = task.quote
         /\ "success" \in DOMAIN entry => entry.success
    ELSE /\ "success" \in DOMAIN entry /\ ~entry.success
         /\ entry.error = task.error

\* C22: in a concurrent fan-out of quote requests the failure of one request
\* neither cancels nor discards its siblings: the operation ends by returning one
\* entry per request, in request order, each marked as a success with its quote or
\* as a failure with its error.
C22_FanOutCollectsEveryOutcome ==
    (op \in FanOutOperations /\ Terminal /\ ~TooFewPairs(op, input.pairs)) =>
        /\ pc = "done"
        /\ AllSettled(output)
        /\ Len(ReturnedEntries) = Len(input.pairs)
        /\ \A k \in 1..Len(input.pairs) : MarksOutcome(ReturnedEntries[k], output[k])

\* what holds of getQuotesMultiple, whose tasks catch their own errors
QuotesMultipleCollectsEveryOutcome ==
    (op = "getQuotesMultiple" /\ Terminal /\ ~TooFewPairs(op, input.pairs)) =>
        /\ pc = "done"
        /\ AllSettled(output)
        /\ Len(ReturnedEntries) = Len(input.pairs)
        /\ \A k \in 1..Len(input.pairs) : MarksOutcome(ReturnedEntries[k], output[k])

\* getQuotesMultiple returned a failure between two successes
QuotesMultipleMixed ==
    /\ op = "getQuotesMultiple" /\ pc = "done" /\ Len(input.pairs) = 3
    /\ result[1].quotes[1].success /\ ~result[1].quotes[2].success
    /\ result[1].quotes[3].success
    /\ result[1].quotes[2].error \in ApiErrors

\* compareQuotes threw on its second request while the quote of the first had
\* arrived; compareRoutes threw while its sibling was still in flight
CompareQuotesDiscardsSibling ==
    /\ op = "compareQuotes" /\ pc = "raised" /\ Len(input.pairs) = 2
    /\ output[1].state = "fulfilled" /\ output[2].state = "rejected"
    /\ error = output[2].error /\ result = None
CompareRoutesThrowsEarly ==
    /\ op = "compareRoutes" /\ pc = "raised"
    /\ output[1].state = "rejected" /\ output[2].state = "pending"
    /\ error \in ApiErrors

\* ------------------------------------------------ calculateRouteFees properties

\* the sum of the feeAmounts of the steps
RECURSIVE SumOfFees(_, _)
SumOfFees(plan, k) ==
    IF k = 0 THEN 0 ELSE SumOfFees(plan, k - 1) + BigInt(plan[k].feeAmount)

\* C23: calculateRouteFees returns the total of the route: the totalFees of what
\* it returns equals the sum of the feeAmount of every step of the route plan
\* (1000 and 500 give 1500), and is zero for a route with no steps.
C23_RouteFeesTotal ==
    Applied("calculateRouteFees") =>
        output[1] = [totalFees |-> SumOfFees(input.quote.routePlan,
                                             Len(input.quote.routePlan))]

\* what calculateRouteFees returns: the sum as a decimal string with feeDecimals
\* fraction digits, which reads back as the sum
RouteFeesFormatsTheSum ==
    Applied("calculateRouteFees") =>
        LET plan == input.quote.routePlan
            decimals == IF input.feeDecimals = None THEN 6 ELSE input.feeDecimals[1]
        IN  /\ parseAmount(output[1], decimals) = toString(SumOfFees(plan, Len(plan)))
            /\ Len(SplitFraction(output[1])) = (IF decimals = 0 THEN 1 ELSE decimals)

\* fees of 1000 and 500 with the default decimals give the string "0.001500"
RouteFeesOfTheTest ==
    /\ Applied("calculateRouteFees")
    /\ Len(input.quote.routePlan) = 2
    /\ input.quote.routePlan[1].feeAmount = toString(1000)
    /\ input.quote.routePlan[2].feeAmount = toString(500)
    /\ input.feeDecimals = None
    /\ output[1] = <<"0", ".", "0", "0", "1", "5", "0", "0">>

\* ------------------------------------------------------- getQuote validation

\* the texts that list one message per violated rule, in some order
ViolationTexts(params) ==
    LET violated == ViolatedRules(params)
        messages == UNION {RuleMessages(r) : r \in violated}
    IN  {Join(listed) : listed \in
            {l \in [1..Cardinality(violated) -> messages] :
                \A r \in violated :
                    Cardinality({k \in DOMAIN l : l[k] \in RuleMessages(r)}) = 1}}

\* C24: JupiterClient.getQuote validates before any I/O: for parameters that
\* violate a rule it raises an 'Invalid quote parameters' error listing every
\* violated rule and sends no HTTP request, so nothing is retried; a request is
\* sent only for parameters that validate.
C24_ValidatesBeforeAnyRequest ==
    op = "getQuote" =>
        IF ViolatedRules(input.params) # {}
        THEN /\ pc = "raised" /\ result = None
             /\ \E text \in ViolationTexts(input.params) :
                   error = "Invalid quote parameters: " \o text
             /\ Sends = 0 /\ Retries = 0
             /\ retryCount = None /\ response = NoResponse
        ELSE /\ Sends >= 1
             /\ pc = "raised" => error \in ApiErrors

\* a request without input mint and amount and with slippage 10001 is refused
\* with all three rules listed and nothing sent
C24_Witness ==
    /\ op = "getQuote" /\ pc = "raised"
    /\ input.params.inputMint = "" /\ input.params.slippageBps = Some(10001)
    /\ error = "Invalid quote parameters: Input mint address is required, "
               \o "Amount is required, Slippage must be between 0 and 10000 basis points"
    /\ log = <<>>

\* ------------------------------------------- TransactionResult after submission

\* the step in which sendAndConfirmTransaction produces its result
ProducesResult ==
    op = "signAndSendTransaction" /\ result = None /\ result' # None

\* the step in which the broadcast fails
BroadcastFails ==
    op = "signAndSendTransaction" /\ pc = "sct_send" /\ pc' # "sct_blockhash"

\* C25: a TransactionResult is created only after submission:
\* sendAndConfirmTransaction produces a result only once the broadcast has
\* returned a signature, the result carries that signature, and confirmed is true
\* if and only if the confirmation reported no error; if the broadcast itself
\* fails, no result is produced, the error propagates to the caller and the
\* confirmation is never attempted.
C25_ResultOnlyAfterSubmission ==
    /\ [](op = "signAndSendTransaction" =>
            /\ result # None =>
                  /\ submitted >= 1
                  /\ \E p \in 1..Len(log) : log[p].call \in Broadcasts
                  /\ signature \in Signatures /\ result[1].signature = signature
                  /\ reply.confirmation \in {Null} \cup LedgerErrs
                  /\ result[1].confirmed <=> reply.confirmation = Null
            /\ (\E p \in 1..Len(log) : log[p].call \in {"getLatestBlockhash",
                                                        "confirmTransaction"})
                  => signature \in Signatures)
    /\ [][/\ ProducesResult =>
               /\ pc = "sct_confirm" /\ pc' = "done"
               /\ signature \in Signatures /\ signature' = signature
               /\ submitted' = submitted /\ submitted >= 1
          /\ BroadcastFails =>
               /\ pc' = "raised" /\ result' = None
               /\ error' \in TransportErrors
               /\ log' = log /\ Count(log, "confirmTransaction") = 0
               /\ submitted' = submitted /\ signature' = ""]_vars

\* a confirmed result carrying the signature the broadcast returned
C25_Witness ==
    /\ op = "signAndSendTransaction" /\ pc = "done"
    /\ result # None /\ result[1].confirmed /\ result[1].signature = "sigA"
    /\ reply = [confirmation |-> Null]
    /\ submitted = 1 /\ Count(log, "confirmTransaction") = 1

\* the broadcast failed: an error, no result, nothing after the broadcast
BroadcastFailedNoResult ==
    /\ op = "signAndSendTransaction" /\ pc = "raised"
    /\ reply = [rejected |-> "ECONNRESET"] /\ error = "ECONNRESET"
    /\ result = None /\ submitted = 0
    /\ Len(log) = 3 /\ log[3].call \in Broadcasts

\* --------------------------------------------------------- JupiterTrigger.poll

\* !x of an optional number
Falsy(x) == x = None \/ x[1] = 0

\* the outcome of a poll function: the static data it leaves and the items it
\* returns (<<>> for null)
PollOutcome(data, items) == [staticData |-> data, returned |-> items]

\* mutant: the alert is level-triggered, it fires whenever the condition holds
pollPriceAlertRearms(parameters, data, priceData) ==
    IF priceData = None THEN PollOutcome(data, <<>>)
    ELSE LET currentPrice == priceData[1]
             threshold == parameters.priceThreshold
             shouldTrigger ==
                 \/ parameters.condition = "above" /\ currentPrice >= threshold
                 \/ parameters.condition = "below" /\ currentPrice <= threshold
         IN  IF shouldTrigger
             THEN PollOutcome([data EXCEPT !.lastTriggeredPrice = Some(currentPrice)],
                              <<[event |-> "priceAlert", currentPrice |-> currentPrice]>>)
             ELSE PollOutcome(data, <<>>)

\* pollPriceAlert, from the answer of client.getPrice on
pollPriceAlert(parameters, data, priceData) ==
    IF priceData = None THEN PollOutcome(data, <<>>)
    ELSE LET currentPrice == priceData[1]
             threshold == parameters.priceThreshold
             lastTriggeredPrice == data.lastTriggeredPrice
             shouldTrigger ==
                 IF parameters.condition = "above" /\ currentPrice >= threshold
                 THEN Falsy(lastTriggeredPrice) \/ lastTriggeredPrice[1] < threshold
                 ELSE IF parameters.condition = "below" /\ currentPrice <= threshold
                 THEN Falsy(lastTriggeredPrice) \/ lastTriggeredPrice[1] > threshold
                 ELSE FALSE
         IN  IF shouldTrigger
             THEN PollOutcome([data EXCEPT !.lastTriggeredPrice = Some(currentPrice)],
                              <<[event |-> "priceAlert", currentPrice |-> currentPrice]>>)
             ELSE PollOutcome(data, <<>>)

\* ((currentPrice - lastPrice) / lastPrice) * 100, for the prices followed, whose
\* quotient is exact
PercentChange(currentPrice, lastPrice) == ((currentPrice - lastPrice) * 100) \div lastPrice

\* mutant: a poll that does not fire keeps the old baseline
pollPriceChangeKeepsBaseline(parameters, data, priceData) ==
    IF priceData = None THEN PollOutcome(data, <<>>)
    ELSE LET currentPrice == priceData[1]
             lastPrice == data.lastPrice
         IN  IF lastPrice = None
             THEN PollOutcome([data EXCEPT !.lastPrice = Some(currentPrice)], <<>>)
             ELSE IF Abs(PercentChange(currentPrice, lastPrice[1])) >= parameters.changePercent
             THEN PollOutcome([data EXCEPT !.lastPrice = Some(currentPrice)],
                              <<[event |-> "priceChange", previousPrice |-> lastPrice[1],
                                 currentPrice |-> currentPrice,
                                 percentChange |-> PercentChange(currentPrice, lastPrice[1])]>>)
             ELSE PollOutcome(data, <<>>)

\* pollPriceChange, from the answer of client.getPrice on
pollPriceChange(parameters, data, priceData) ==
    IF priceData = None THEN PollOutcome(data, <<>>)
    ELSE LET currentPrice == priceData[1]
             lastPrice == data.lastPrice
             stored == [data EXCEPT !.lastPrice = Some(currentPrice)]
         IN  IF lastPrice # None
                /\ Abs(PercentChange(currentPrice, lastPrice[1])) >= parameters.changePercent
             THEN PollOutcome(stored,
                              <<[event |-> "priceChange", previousPrice |-> lastPrice[1],
                                 currentPrice |-> currentPrice,
                                 percentChange |-> PercentChange(currentPrice, lastPrice[1])]>>)
             ELSE PollOutcome(stored, <<>>)

\* newTokens.slice(0, 10)
MaxEmitted == 10

\* staticData.knownTokens || []
KnownTokens(data) == IF data.knownTokens = None THEN <<>> ELSE data.knownTokens[1]

NewTokenItems(newTokens) ==
    [k \in 1..Min(MaxEmitted, Len(newTokens)) |-> [event |-> "newToken", mint |-> newTokens[k]]]

\* mutant: only the emitted tokens become known
pollNewTokensKnowsEmitted(data, tokens) ==
    LET knownTokens == KnownTokens(data)
        IsNew(address) == address \notin Elements(knownTokens)
        newTokens == SelectSeq(tokens, IsNew)
    IN  IF Len(newTokens) > 0
        THEN PollOutcome([data EXCEPT !.knownTokens =
                             Some(knownTokens \o SubSeq(newTokens, 1,
                                                       Min(MaxEmitted, Len(newTokens))))],
                         NewTokenItems(newTokens))
        ELSE PollOutcome(data, <<>>)

\* pollNewTokens, from the answer of client.getTokenList on; a token is its address
pollNewTokens(data, tokens) ==
    LET knownTokens == KnownTokens(data)
        IsNew(address) == address \notin Elements(knownTokens)
        newTokens == SelectSeq(tokens, IsNew)
    IN  IF Len(newTokens) > 0
        THEN PollOutcome([data EXCEPT !.knownTokens = Some(tokens)], NewTokenItems(newTokens))
        ELSE IF Len(knownTokens) = 0
        THEN PollOutcome([data EXCEPT !.knownTokens = Some(tokens)], <<>>)
        ELSE PollOutcome(data, <<>>)

\* what one poll saw and did: the static data before and after, what the client
\* answered (None: no price data, or the request failed) and the items returned
PollRecord(before, fetched, outcome) ==
    [before |-> before, fetched |-> fetched, returned |-> outcome.returned,
     after |-> outcome.staticData]

\* the node parameters: the event, and the condition, threshold and change percent
PolledEvents == {"priceAlert", "priceChange", "newToken"}
TriggerParameters ==
    [fn : {"poll"}, event : {"priceAlert"}, condition : {"above", "below"},
     priceThreshold : {2}, changePercent : {0}]
    \cup [fn : {"poll"}, event : {"priceChange"}, condition : {"above"},
          priceThreshold : {0}, changePercent : {50, 75, 100}]
    \cup [fn : {"poll"}, event : {"newToken", "swapExecuted"}, condition : {"above"},
          priceThreshold : {0}, changePercent : {0}]

\* the prices the price API answers with, and the token lists of the token API:
\* tokens 1..3, 1..11, 1..12, 1..10 with 12, and 11 ahead of 1..3
Prices == {1, 2, 4}
Range(a, b) == [k \in 1..(b - a + 1) |-> a + k - 1]
TokenLists ==
    {<<>>, Range(1, 3), Range(1, 11), Range(1, 12), Range(1, 10) \o <<12>>,
     <<11>> \o Range(1, 3)}

\* poll() up to the first await of the poll function: the client is created and
\* the request is sent; poll returns null at once when creating the client throws
\* or the event is none of the polled ones
InvokePoll ==
    /\ op = "idle" /\ input.fn = "poll" /\ Len(output) < MaxPolls
    /\ op' = "poll" /\ operation' = "poll"
    /\ \E clientCreated \in BOOLEAN :
          IF ~clientCreated \/ input.event \notin PolledEvents
          THEN /\ pc' = "done" /\ result' = Some(<<>>)
               /\ output' = Append(output, PollRecord(staticData, None,
                                                      PollOutcome(staticData, <<>>)))
          ELSE /\ pc' = (IF input.event = "newToken" THEN "trg_tokens" ELSE "trg_price")
               /\ UNCHANGED <<result, output>>
    /\ UNCHANGED <<now, calls, keypair, submitted, log, timeoutMs, startTime, status,
                   maxRetries, i, lastError, delay, reply, signature, error>>
    /\ UNCHANGED <<httpVars, feeQuote, input, staticData>>

\* client.getPrice answers, with or without data for the token
PollPriceReply ==
    /\ op = "poll" /\ pc = "trg_price"
    /\ \E priceData \in {None} \cup {Some(p) : p \in Prices} :
          LET outcome == IF input.event = "priceAlert"
                         THEN pollPriceAlert(input, staticData, priceData)
                         ELSE pollPriceChange(input, staticData, priceData)
          IN  /\ staticData' = outcome.staticData
              /\ result' = Some(outcome.returned)
              /\ output' = Append(output, PollRecord(staticData, priceData, outcome))
    /\ pc' = "done"
    /\ UNCHANGED <<op, now, calls, keypair, submitted, log, timeoutMs, startTime,
                   status, maxRetries, i, lastError, delay, reply, signature, error>>
    /\ UNCHANGED <<httpVars, operation, feeQuote, input>>

\* client.getTokenList answers
PollTokensReply ==
    /\ op = "poll" /\ pc = "trg_tokens"
    /\ \E tokens \in TokenLists :
          LET outcome == pollNewTokens(staticData, tokens)
          IN  /\ staticData' = outcome.staticData
              /\ result' = Some(outcome.returned)
              /\ output' = Append(output, PollRecord(staticData, Some(tokens), outcome))
    /\ pc' = "done"
    /\ UNCHANGED <<op, now, calls, keypair, submitted, log, timeoutMs, startTime,
                   status, maxRetries, i, lastError, delay, reply, signature, error>>
    /\ UNCHANGED <<httpVars, operation, feeQuote, input>>

\* the request of the poll function fails: poll returned the function's promise
\* without awaiting it, so its catch does not see the error and poll rejects
PollFetchFails ==
    /\ op = "poll" /\ pc \in {"trg_price", "trg_tokens"}
    /\ \E e \in ApiErrors : error' = e
    /\ pc' = "raised"
    /\ output' = Append(output, PollRecord(staticData, None, PollOutcome(staticData, <<>>)))
    /\ UNCHANGED <<op, now, calls, keypair, submitted, log, timeoutMs, startTime,
                   status, maxRetries, i, lastError, delay, reply, signature, result>>
    /\ UNCHANGED <<httpVars, operation, feeQuote, input, staticData>>

\* a workflow with the trigger node is activated; its static data is empty
TriggerInit ==
    /\ TxInit /\ ~keypair
    /\ HttpIdle
    /\ operation = "none" /\ feeQuote = None /\ staticData = NoStaticData
    /\ input \in TriggerParameters
    /\ output = <<>>

TriggerNext ==
    \/ InvokePoll
    \/ PollPriceReply
    \/ PollTokensReply
    \/ PollFetchFails
    \/ Return

TriggerSpec == TriggerInit /\ [][TriggerNext]_vars

\* ------------------------------------------------------------ trigger properties

\* the polls so far that returned items
Fired == {k \in 1..Len(output) : output[k].returned # <<>>}

\* C26: the price-alert trigger is edge-triggered and never re-arms: with a fixed
\* condition, a positive threshold and positive prices, the alert fires at most
\* once over any sequence of polls; lastTriggeredPrice is written only when the
\* alert fires and is never reset, and a poll that does not fire leaves the stored
\* state unchanged.
C26_AlertFiresAtMostOnce ==
    /\ [](input.fn = "poll" /\ input.event = "priceAlert" /\ input.priceThreshold > 0 =>
            /\ Cardinality(Fired) <= 1
            /\ \A k \in 1..Len(output) :
                  IF k \in Fired
                  THEN /\ output[k].fetched \in {Some(p) : p \in Prices}
                       /\ output[k].after.lastTriggeredPrice = output[k].fetched
                       /\ output[k].before.lastTriggeredPrice = None
                  ELSE output[k].after = output[k].before
            /\ (Fired = {} <=> staticData.lastTriggeredPrice = None))
    /\ [][input.fn = "poll" /\ input.event = "priceAlert" =>
            /\ staticData.lastTriggeredPrice # None
                  => staticData' = staticData
            /\ staticData' # staticData
                  => /\ Len(output') = Len(output) + 1
                     /\ output'[Len(output')].returned # <<>>]_vars

\* above 2: price 4 fires, price 1 leaves the region, price 4 again does not fire
C26_Witness ==
    /\ input.fn = "poll" /\ input.event = "priceAlert" /\ input.condition = "above"
    /\ Len(output) = 3
    /\ output[1].fetched = Some(4) /\ output[1].returned # <<>>
    /\ output[2].fetched = Some(1) /\ output[2].returned = <<>>
    /\ output[3].fetched = Some(4) /\ output[3].returned = <<>>
    /\ staticData.lastTriggeredPrice = Some(4)

\* ---- new-token trigger

\* the polls that obtained the token list
Listed == {k \in 1..Len(output) : output[k].fetched # None}
Fetched(k) == Elements(output[k].fetched[1])
Emitted(k) == {output[k].returned[n].mint : n \in 1..Len(output[k].returned)}
KnownBefore(k) == Elements(KnownTokens(output[k].before))
KnownAfter(k) == Elements(KnownTokens(output[k].after))

\* the tokens a poll found new but did not emit: those beyond the first ten
Swallowed(k) == (Fetched(k) \ KnownBefore(k)) \ Emitted(k)

\* token t is in every list obtained between polls j and k
StaysListed(t, j, k) == \A m \in Listed : (j < m /\ m < k) => t \in Fetched(m)

\* each poll emits only tokens that were not known when it started, at most ten,
\* and leaves every token of the list it obtained known
PollEmitsNewAndLearnsAll ==
    \A k \in Listed :
        /\ Emitted(k) \subseteq Fetched(k) \ KnownBefore(k)
        /\ Len(output[k].returned) <= 10
        /\ Len(output[k].returned) = Cardinality(Emitted(k))
        /\ Fetched(k) \subseteq KnownAfter(k)
        /\ KnownAfter(k) = (IF k = Len(output) THEN Elements(KnownTokens(staticData))
                            ELSE KnownBefore(k + 1))

\* a token is emitted at most once while it stays listed
EmittedOnceWhileListed ==
    \A j \in Listed, k \in Listed :
        j < k => \A t \in Emitted(j) \cap Emitted(k) : ~StaysListed(t, j, k)

\* C27 as stated: the new-token trigger emits only tokens whose address was not in
\* knownTokens at the start of the poll, at most 10 per poll, and after every
\* successful poll every address of the fetched list is in knownTokens; a token is
\* emitted at most once while it stays listed, and new tokens beyond the first 10
\* found in one poll are never emitted by a later poll.
C27_NewTokensEmittedOnce ==
    (input.fn = "poll" /\ input.event = "newToken") =>
        /\ PollEmitsNewAndLearnsAll
        /\ EmittedOnceWhileListed
        /\ \A j \in Listed, k \in Listed : j < k => Swallowed(j) \cap Emitted(k) = {}

\* C27, amended: the tokens beyond the first 10 are, like the emitted ones, not
\* emitted by a later poll while they stay listed.
C27_NewTokensEmittedOnceWhileListed ==
    (input.fn = "poll" /\ input.event = "newToken") =>
        /\ PollEmitsNewAndLearnsAll
        /\ EmittedOnceWhileListed
        /\ \A j \in Listed, k \in Listed :
              j < k => \A t \in Swallowed(j) \cap Emitted(k) : ~StaysListed(t, j, k)

\* eleven new tokens: ten are emitted, the eleventh is known and a second poll of
\* a list that still has it emits nothing
C27_Witness ==
    /\ input.fn = "poll" /\ input.event = "newToken" /\ Len(output) = 2
    /\ output[1].fetched = Some(Range(1, 11)) /\ Emitted(1) = 1..10
    /\ Swallowed(1) = {11}
    /\ output[2].fetched = Some(Range(1, 11)) /\ output[2].returned = <<>>

\* token 11 was beyond the first ten, left the list while token 12 arrived, and is
\* emitted when it is listed again
SwallowedTokenEmittedLater ==
    /\ input.fn = "poll" /\ input.event = "newToken" /\ Len(output) = 3
    /\ Listed = {1, 2, 3}
    /\ Swallowed(1) = {11}
    /\ output[2].fetched = Some(Range(1, 10) \o <<12>>)
    /\ 11 \in Emitted(3)

\* ---- price-change trigger

\* the polls that obtained a price
Priced == {k \in 1..Len(output) : output[k].fetched # None}

\* the price of the last poll before k that obtained one
PrecedingPrice(k) ==
    output[CHOOSE j \in Priced : j < k /\ \A m \in Priced : m < k => m <= j].fetched[1]

\* C28: the price-change trigger always compares against the immediately preceding
\* poll: after every poll that obtained a price the stored lastPrice equals that
\* price, whether or not the poll fired; the first such poll never fires, and a
\* later poll fires if and only if the absolute percent change from the stored
\* lastPrice is >= changePercent.
C28_ComparesWithPrecedingPoll ==
    (input.fn = "poll" /\ input.event = "priceChange") =>
        /\ \A k \in Priced :
              /\ output[k].after.lastPrice = output[k].fetched
              /\ IF \A j \in Priced : k <= j
                 THEN output[k].returned = <<>> /\ output[k].before.lastPrice = None
                 ELSE /\ output[k].before.lastPrice = Some(PrecedingPrice(k))
                      /\ output[k].returned # <<>>
                            <=> Abs(output[k].fetched[1] - PrecedingPrice(k)) * 100
                                   >= input.changePercent * PrecedingPrice(k)
        /\ \A k \in (1..Len(output)) \ Priced :
              output[k].after = output[k].before /\ output[k].returned = <<>>
        /\ Priced # {} =>
              staticData.lastPrice = output[CHOOSE k \in Priced : \A j \in Priced : j <= k].fetched

\* changePercent 75: 4 -> 2 does not fire (50%), 2 -> 4 then fires (100% of the 2
\* stored by the poll that did not fire)
C28_Witness ==
    /\ input.fn = "poll" /\ input.event = "priceChange" /\ input.changePercent = 75
    /\ Len(output) = 3
    /\ output[1].fetched = Some(4) /\ output[1].returned = <<>>
    /\ output[2].fetched = Some(2) /\ output[2].returned = <<>>
    /\ output[3].fetched = Some(4) /\ output[3].returned # <<>>
    /\ output[3].returned[1].previousPrice = 2
    /\ staticData.lastPrice = Some(4)

\* ------------------------------------------- retries only on 429, when enabled

\* a response arrives that is an error other than a 429 to be retried
ErrorNotToRetry ==
    /\ op = "getQuote" /\ pc = "jc_flight" /\ response' # response
    /\ response'.status # 200
    /\ response'.status # 429 \/ ~config.retryOnRateLimit

\* C29: the JupiterClient retry interceptor re-sends a request only for HTTP 429
\* with retryOnRateLimit enabled: for any other error status, or when
\* retryOnRateLimit is false, the request is not sent again (with the switch off
\* it is sent exactly once), no wait is inserted, the retry counter is left
\* unchanged and the original error is rejected to the caller.
C29_RetriesOnlyRateLimitWhenEnabled ==
    /\ [](op = "getQuote" =>
             /\ Retries > 0 => config.retryOnRateLimit
             /\ ~config.retryOnRateLimit =>
                   /\ Sends <= 1 /\ retryCount = None
                   /\ pc \in {"jc_flight", "done", "raised"}
             /\ pc = "jc_backoff" => response.status = 429 /\ config.retryOnRateLimit
             /\ (pc = "raised" /\ Sends >= 1) =>
                   /\ response.status # 200 /\ error = handleError(response)
                   /\ log[Len(log)].call = "GET"
                   /\ response.status # 429 => Sends = Retries + 1)
    /\ [][ErrorNotToRetry =>
             /\ pc' = "raised" /\ error' = handleError(response')
             /\ log' = log /\ retryCount' = retryCount /\ delay' = delay
             /\ now' = now /\ result' = None]_vars

\* a 429 with retryOnRateLimit switched off: one send, no wait, the error is raised
C29_Witness ==
    /\ op = "getQuote" /\ pc = "raised" /\ ~config.retryOnRateLimit
    /\ response.status = 429 /\ ~response.message
    /\ Sends = 1 /\ Retries = 0 /\ retryCount = None
    /\ error = "Rate limit exceeded. Please try again later."

\* a 500 that follows a retried 429 is raised without another send
ServerErrorAfterRetry ==
    /\ op = "getQuote" /\ pc = "raised" /\ config.retryOnRateLimit
    /\ response.status = 500 /\ Sends = 2 /\ Retries = 1 /\ retryCount = Some(1)

\* ------------------------------------------- the final wait of getRecentBlockhash

RECURSIVE TotalWait(_)
TotalWait(timers) == IF timers = <<>> THEN 0 ELSE Head(timers).ms + TotalWait(Tail(timers))

\* C30: when every blockhash fetch fails, getRecentBlockhash makes exactly
\* maxRetries fetches and raises its error only after a further backoff wait of
\* 1000 * maxRetries ms following the last failed fetch (total waiting
\* 1000 * maxRetries * (maxRetries + 1) / 2 ms); no fetch is issued after that
\* final wait.
C30_RaisesAfterFinalWait ==
    /\ [](op = "getRecentBlockhash" /\ pc = "raised" =>
             /\ Fetches = maxRetries /\ Failures = maxRetries
             /\ 2 * TotalWait(Timers(log)) = 1000 * maxRetries * (maxRetries + 1)
             /\ now >= TotalWait(Timers(log))
             /\ maxRetries >= 1 =>
                   /\ log[Len(log)].call = "setTimeout"
                   /\ log[Len(log)].ms = 1000 * maxRetries
                   /\ log[Len(log) - 1].call = "getLatestBlockhash"
                   /\ log[Len(log)].at >= log[Len(log) - 1].at
                   /\ now >= log[Len(log)].at + 1000 * maxRetries)
    /\ [][(op = "getRecentBlockhash" /\ pc = "gbh_backoff" /\ Failures = maxRetries) =>
             /\ pc' = "raised" /\ log' = log
             /\ now' >= now + 1000 * maxRetries]_vars
    /\ [][(op = "getRecentBlockhash" /\ pc = "gbh_fetch" /\ pc' = "raised") => FALSE]_vars

\* two fetches failed: waits of 1000 and 2000 ms, the error is raised at 3000 ms
C30_Witness ==
    /\ op = "getRecentBlockhash" /\ pc = "raised" /\ maxRetries = 2
    /\ Len(log) = 4 /\ log[2].ms = 1000 /\ log[4].ms = 2000
    /\ log[3].at = 1000 /\ log[4].at = 1000
    /\ now = 3000 /\ error \in TransportErrors

====
